---- MODULE Spec2Model ----
(***************************************************************************)
(* Model of the AKS multi-tenant kubectl tool (holmes/plugins/toolsets):   *)
(* BaseAKSTool._parse_resource_id, BaseAKSTool._get_resource_context, the  *)
(* two executors and CallKubectl._invoke.                                  *)
(*                                                                         *)
(* Text is modelled as a sequence of one-character strings.  The fixed     *)
(* text of an f-string or of a message literal is one element of the       *)
(* sequence (a chunk); every interpolated value is spliced in character by *)
(* character.  An Optional value is a sequence of length 0 (None) or 1.    *)
(***************************************************************************)
EXTENDS Integers, Sequences, FiniteSets, TLC

VARIABLES
    pc,               \* per invocation: position inside CallKubectl._invoke
    params,           \* per invocation: the params dict, [args |-> Optional text]
    request_context,  \* per invocation: context.request_context, Optional dict
    kubectl_args,     \* per invocation: local variable kubectl_args of _invoke
    azure_ctx,        \* per invocation: local variable azure_ctx of _invoke
    result,           \* per invocation: the executor's dict, Optional
    ret,              \* per invocation: the StructuredToolResult returned, Optional
    raised,           \* per invocation: the exception of _get_resource_context that
                      \* left _invoke, Optional
    crash,            \* per invocation: the exception of the result assembly that
                      \* left _invoke, Optional
    remote_calls,     \* per invocation: calls of _execute_kubectl_via_azure_sdk
    local_calls,      \* per invocation: calls of _execute_kubectl_locally
    logs,             \* process-wide logging output, in order
    parse_in,         \* argument of a direct call of _parse_resource_id
    parse_out,        \* its return value, Optional (None while not yet called)
    stdout_in,        \* argument of a direct call of _parse_kubectl_output
    output_out,       \* what the call left behind, Optional (None while not yet called)
    repr_in,          \* the AzureResourceContext of a direct call of repr
    repr_out,         \* the text repr returned, Optional (None while not yet called)
    backend,          \* per invocation: what the backend did in the executor, Optional
    sdk_calls         \* the calls of begin_run_command the Azure SDK received, in order

vars == <<pc, params, request_context, kubectl_args, azure_ctx, result, ret,
          raised, remote_calls, local_calls, logs, parse_in, parse_out,
          backend, sdk_calls, crash, stdout_in, output_out, repr_in, repr_out>>

\* the variables of the direct calls of the pure functions
harness_vars == <<parse_in, parse_out, stdout_in, output_out, repr_in, repr_out>>

invocation_vars == <<pc, params, request_context, kubectl_args, azure_ctx,
                     result, ret, raised, remote_calls, local_calls, backend,
                     crash>>

(***************************************************************************)
(* Text helpers (Python str methods used by the code).                     *)
(***************************************************************************)
None == <<>>
Some(v) == <<v>>

UpperChars == <<"A", "B", "C", "D", "E", "F", "G", "H", "I", "J", "K", "L", "M",
                "N", "O", "P", "Q", "R", "S", "T", "U", "V", "W", "X", "Y", "Z">>
LowerChars == <<"a", "b", "c", "d", "e", "f", "g", "h", "i", "j", "k", "l", "m",
                "n", "o", "p", "q", "r", "s", "t", "u", "v", "w", "x", "y", "z">>

\* str.lower() on one character
LowerChar(c) ==
    IF \E k \in 1..26 : UpperChars[k] = c
    THEN LowerChars[CHOOSE k \in 1..26 : UpperChars[k] = c]
    ELSE c

\* str.lower()
Lower(s) == [k \in 1..Len(s) |-> LowerChar(s[k])]

\* the characters str.strip() and str.split() treat as whitespace
IsSpace(c) == c \in {" ", "\t", "\n"}

RECURSIVE LStrip(_)
LStrip(s) ==
    IF s # <<>> /\ IsSpace(Head(s)) THEN LStrip(Tail(s)) ELSE s

RECURSIVE RStrip(_)
RStrip(s) ==
    IF s # <<>> /\ IsSpace(s[Len(s)]) THEN RStrip(SubSeq(s, 1, Len(s) - 1)) ELSE s

\* str.strip()
Strip(s) == RStrip(LStrip(s))

\* s.startswith(p)
StartsWith(s, p) == Len(p) <= Len(s) /\ SubSeq(s, 1, Len(p)) = p

\* p in s
Contains(s, p) ==
    \/ p = <<>>
    \/ \E k \in 1..(Len(s) - Len(p) + 1) :
          s[k] = p[1] /\ SubSeq(s, k, k + Len(p) - 1) = p

\* s.split()[0] of a text that holds a non-space character
RECURSIVE TakeWord(_)
TakeWord(s) ==
    IF s = <<>> \/ IsSpace(Head(s)) THEN <<>> ELSE <<Head(s)>> \o TakeWord(Tail(s))

FirstWord(s) == TakeWord(LStrip(s))

DigitChars == <<"0", "1", "2", "3", "4", "5", "6", "7", "8", "9">>

RECURSIVE NatToStr(_)
NatToStr(n) ==
    IF n < 10 THEN <<DigitChars[n + 1]>>
    ELSE NatToStr(n \div 10) \o <<DigitChars[(n % 10) + 1]>>

\* str(n) of an integer, as an f-string formats it
IntToStr(n) == IF n < 0 THEN <<"-">> \o NatToStr(0 - n) ELSE NatToStr(n)

LogEntry(level, msg) == [level |-> level, msg |-> msg]

(***************************************************************************)
(* BaseAKSTool.RESOURCE_ID_PATTERN and _parse_resource_id.                 *)
(***************************************************************************)
Lit(text) == [kind |-> "lit", text |-> text]
Group(name) == [kind |-> "group", text |-> name]

\* the compiled pattern between ^ and $: literals and named [^/]+ groups
RESOURCE_ID_PATTERN ==
    << Lit(<<"/", "s", "u", "b", "s", "c", "r", "i", "p", "t", "i", "o", "n", "s", "/">>),
       Group(<<"subscription">>),
       Lit(<<"/", "r", "e", "s", "o", "u", "r", "c", "e", "G", "r", "o", "u", "p", "s", "/">>),
       Group(<<"resource_group">>),
       Lit(<<"/", "p", "r", "o", "v", "i", "d", "e", "r", "s", "/">>),
       Group(<<"provider">>),
       Lit(<<"/">>),
       Group(<<"resource_type">>),
       Lit(<<"/">>),
       Group(<<"resource_name">>) >>

\* fault: the pattern is compiled without re.IGNORECASE
CharMatchesExactly(patc, c) == patc = c

\* re.IGNORECASE: a pattern character matches either case of itself
CharMatches(patc, c) == patc = c \/ LowerChar(patc) = LowerChar(c)

\* the longest run of non-slash characters of s that starts at index k
RECURSIVE RunEnd(_, _)
RunEnd(s, k) ==
    IF k <= Len(s) /\ s[k] # "/" THEN RunEnd(s, k + 1) ELSE k

\* fault: the pattern has no "$" anchor
AtEndOrNot(s, k) == TRUE

\* "$" without re.MULTILINE: the end of the text, or just before a final newline
AtEnd(s, k) == k = Len(s) + 1 \/ (k = Len(s) /\ s[k] = "\n")

\* Pattern.match from item j of the pattern and index k of the text; groups is
\* the sequence of captured groups so far.  Returns None or Some(groups).
\* [^/]+ is greedy and every group is followed by "/" or by "$", so the
\* longest run is the only candidate and no backtracking can change the result.
RECURSIVE MatchFrom(_, _, _, _, _)
MatchFrom(pat, j, s, k, groups) ==
    IF j > Len(pat)
    THEN IF AtEnd(s, k) THEN Some(groups) ELSE None
    ELSE IF pat[j].kind = "lit"
    THEN LET n == Len(pat[j].text) IN
         IF k + n - 1 <= Len(s)
            /\ \A m \in 1..n : CharMatches(pat[j].text[m], s[k + m - 1])
         THEN MatchFrom(pat, j + 1, s, k + n, groups)
         ELSE None
    ELSE LET e == RunEnd(s, k) IN
         IF e = k THEN None
         ELSE MatchFrom(pat, j + 1, s, e, Append(groups, SubSeq(s, k, e - 1)))

\* RESOURCE_ID_PATTERN.match(text)
PatternMatch(text) == MatchFrom(RESOURCE_ID_PATTERN, 1, text, 1, <<>>)

\* _parse_resource_id: None, or Some of the triple
\* <<subscription_id, resource_group, resource_name>>
parse_resource_id(resource_id) ==
    IF resource_id = <<>> THEN None
    ELSE LET match == PatternMatch(Strip(resource_id)) IN
         IF match = None THEN None
         ELSE Some(<<match[1][1], match[1][2], match[1][5]>>)

\* the log entries _parse_resource_id emits
parse_resource_id_logs(resource_id) ==
    IF resource_id = <<>>
    THEN <<LogEntry("warning", <<"Empty resource_id provided">>)>>
    ELSE LET match == PatternMatch(Strip(resource_id)) IN
         IF match = None
         THEN <<LogEntry("warning", <<"Failed to parse resource_id: ">> \o resource_id)>>
         ELSE <<LogEntry("debug",
                  <<"Parsed resource_id: subscription=">> \o match[1][1]
                  \o <<", resource_group=">> \o match[1][2]
                  \o <<", resource_name=">> \o match[1][5])>>

(***************************************************************************)
(* AzureResourceContext and BaseAKSTool._get_resource_context.             *)
(***************************************************************************)
AZURE == <<"a", "z", "u", "r", "e">>

\* dict.get(key, default) on an Optional entry of a dict
Get(entry, default) == IF entry = None THEN default ELSE entry[1]

\* a request_context dict with none of its keys set: {}
EmptyDict == [cloud |-> None, resource_id |-> None, access_token |-> None,
              tenant_id |-> None]

\* Python truth value of an Optional dict: None and {} are false
TruthyDict(d) == d # None /\ d[1] # EmptyDict

\* fault: only an absent value counts as missing, an empty text passes
TruthyTextNotNone(x) == x # None

\* Python truth value of an Optional text: None and "" are false
TruthyText(x) == x # None /\ x[1] # <<>>

\* fault: the constructor stores resource_group and resource_name crosswise
AzureResourceContextSwapped(cloud, resource_id, access_token, subscription_id, resource_group, resource_name, tenant_id) ==
    [cloud |-> cloud, resource_id |-> resource_id, access_token |-> access_token,
     subscription_id |-> subscription_id, resource_group |-> resource_name,
     resource_name |-> resource_group, tenant_id |-> tenant_id]

AzureResourceContext(cloud, resource_id, access_token, subscription_id, resource_group, resource_name, tenant_id) ==
    [cloud |-> cloud, resource_id |-> resource_id, access_token |-> access_token,
     subscription_id |-> subscription_id, resource_group |-> resource_group,
     resource_name |-> resource_name, tenant_id |-> tenant_id]

\* str() of an Optional text inside an f-string: None prints as "None"
FormatOptional(x) == IF x = None THEN <<"N", "o", "n", "e">> ELSE x[1]

REDACTED == <<"*", "*", "*", "R", "E", "D", "A", "C", "T", "E", "D", "*", "*", "*">>

\* fault: the token is printed instead of the marker
AzureResourceContext_repr_unredacted(ctx) ==
    <<"AzureResourceContext(cloud=">> \o ctx.cloud
    \o <<", subscription_id=">> \o ctx.subscription_id
    \o <<", resource_group=">> \o ctx.resource_group
    \o <<", resource_name=">> \o ctx.resource_name
    \o <<", tenant_id=">> \o FormatOptional(ctx.tenant_id)
    \o <<", access_token=">> \o ctx.access_token \o <<")">>

\* AzureResourceContext.__repr__
AzureResourceContext_repr(ctx) ==
    <<"AzureResourceContext(cloud=">> \o ctx.cloud
    \o <<", subscription_id=">> \o ctx.subscription_id
    \o <<", resource_group=">> \o ctx.resource_group
    \o <<", resource_name=">> \o ctx.resource_name
    \o <<", tenant_id=">> \o FormatOptional(ctx.tenant_id)
    \o <<", access_token=">> \o REDACTED \o <<")">>

Exception(type, msg) == [type |-> type, msg |-> msg]

\* what a call leaves behind: its return value, or the exception it raised,
\* and the log entries it emitted
Returned(value, entries) == [value |-> value, exc |-> None, logs |-> entries]
Raised(exc, entries) == [value |-> None, exc |-> Some(exc), logs |-> entries]

SchemaHint ==
    <<"Request context must include: cloud='azure', resource_id, access_token">>

\* fault: every non-empty cloud value is taken for azure
CloudIsAnything(cloud) == cloud # <<>>

\* fault: a request that names no cloud is taken for an Azure request
CloudIsAzureOrMissing(cloud) == cloud = AZURE \/ cloud = <<>>

\* the `cloud != "azure"` test of _get_resource_context on the lowered value
CloudIsAzure(cloud) == cloud = AZURE

\* fault: an absent request_context is treated as an incomplete Azure request
no_request_context_raises ==
    Raised(Exception("ValueError",
             <<"Azure multi-tenant request missing 'resource_id' field. ">>
             \o SchemaHint), <<>>)

\* aks_base.py 166-168: the outcome for an absent or empty request_context
no_request_context ==
    Returned(None,
      <<LogEntry("debug", <<"No request_context provided, using local execution">>)>>)

\* _get_resource_context; value is the Optional AzureResourceContext
get_resource_context(rc_opt) ==
    IF ~TruthyDict(rc_opt)
    THEN no_request_context
    ELSE
    LET rc == rc_opt[1]
        cloud == Lower(Get(rc.cloud, <<>>))
        resource_id == rc.resource_id
        access_token == rc.access_token
    IN
    IF ~CloudIsAzure(cloud)
    THEN Returned(None,
           <<LogEntry("debug", <<"Cloud provider is '">> \o cloud
                               \o <<"', not 'azure', using local execution">>)>>)
    ELSE IF ~TruthyText(resource_id)
    THEN Raised(Exception("ValueError",
                  <<"Azure multi-tenant request missing 'resource_id' field. ">>
                  \o SchemaHint), <<>>)
    ELSE IF ~TruthyText(access_token)
    THEN Raised(Exception("ValueError",
                  <<"Azure multi-tenant request missing 'access_token' field. ">>
                  \o SchemaHint), <<>>)
    ELSE
    LET parsed == parse_resource_id(resource_id[1])
        parse_logs == parse_resource_id_logs(resource_id[1])
    IN
    IF parsed = None
    THEN Raised(Exception("ValueError",
                  <<"Failed to parse Azure resource_id: ">> \o resource_id[1]
                  \o <<". Expected format: /subscriptions/{sub}/resourceGroups/{rg}/providers/{provider}/{resourceType}/{name}">>),
                parse_logs)
    ELSE Returned(
           Some(AzureResourceContext(cloud, resource_id[1], access_token[1],
                                     parsed[1][1], parsed[1][2], parsed[1][3],
                                     rc.tenant_id)),
           parse_logs \o
           <<LogEntry("info",
               <<"Extracted Azure resource context: subscription=">> \o parsed[1][1]
               \o <<", resource_group=">> \o parsed[1][2]
               \o <<", resource_name=">> \o parsed[1][3])>>)

(***************************************************************************)
(* BaseAKSTool._execute_kubectl_via_azure_sdk.  env is what the Azure SDK  *)
(* does in this call: sdk_installed (the imports succeed), failure ("none",*)
(* "client": ContainerServiceClient raises, "operation": begin_run_command *)
(* or poller.result(timeout=300) raises) with error_text = str(e), and the *)
(* attributes of the object poller.result returns.  timed_out says that    *)
(* the 300 seconds of poller.result(timeout=300) elapsed before the        *)
(* operation completed: LROPoller.result(timeout) then returns the result  *)
(* available so far, an object without exit code and logs, and raises      *)
(* nothing; the executor has no other test of the elapsed time.            *)
(***************************************************************************)
CommandResult(exit_code, stdout, stderr) ==
    [exit_code |-> exit_code, stdout |-> stdout, stderr |-> stderr]

ImportErrorMessage ==
    <<"azure-mgmt-containerservice package is required for Azure multi-tenant execution. ",
      "Install it with: pip install azure-mgmt-containerservice">>

\* fault: the client is created once and kept on the tool instance, so that
\* every call goes out with the credential and subscription of the first
\* context extracted on that instance
run_command_calls_cached_client(ctx, args, env) ==
    LET first == CHOOSE j \in DOMAIN azure_ctx :
                    /\ azure_ctx[j] # <<>>
                    /\ \A m \in DOMAIN azure_ctx : azure_ctx[m] # <<>> => j <= m
    IN
    IF env.sdk_installed /\ env.failure # "client"
    THEN <<[token |-> azure_ctx[first][1].access_token,
            subscription_id |-> azure_ctx[first][1].subscription_id,
            resource_group_name |-> ctx.resource_group,
            resource_name |-> ctx.resource_name,
            command |-> <<"kubectl ">> \o args]>>
    ELSE <<>>

\* aks_base.py 262-292: the calls of begin_run_command made in this run of the
\* executor, each with the credential and subscription of its client
run_command_calls(ctx, args, env) ==
    IF env.sdk_installed /\ env.failure # "client"
    THEN <<[token |-> ctx.access_token,
            subscription_id |-> ctx.subscription_id,
            resource_group_name |-> ctx.resource_group,
            resource_name |-> ctx.resource_name,
            command |-> <<"kubectl ">> \o args]>>
    ELSE <<>>

\* the text logging.exception appends for the active exception
Traceback(error_text) == <<"\nTraceback (most recent call last): ">> \o error_text

\* fault: a result without exit code counts as a failure
result_exit_code_default_failure(env) ==
    IF env.has_exit_code THEN env.exit_code ELSE 0 - 1

\* result.exit_code if hasattr(result, "exit_code") else 0
result_exit_code(env) == IF env.has_exit_code THEN env.exit_code ELSE 0

\* result.logs if hasattr(result, "logs") else ""
result_logs(env) == IF env.has_logs THEN env.logs ELSE <<>>

execute_kubectl_via_azure_sdk(ctx, args, env) ==
    LET command == <<"kubectl ">> \o args
        executing ==
            LogEntry("info",
              <<"Executing kubectl command via Azure SDK RunCommand: ">> \o command
              \o <<" (cluster=">> \o ctx.resource_name \o <<", rg=">>
              \o ctx.resource_group \o <<")">>)
        failed ==
            LogEntry("error",
              <<"Failed to execute kubectl via Azure SDK: ">> \o args
              \o <<" (cluster=">> \o ctx.resource_name \o <<")">>
              \o Traceback(env.error_text))
        exit_code == result_exit_code(env)
        stdout == result_logs(env)
    IN
    IF ~env.sdk_installed
    THEN Raised(Exception("ImportError", ImportErrorMessage),
           <<LogEntry("error",
               <<"Azure SDK not available. Install with: pip install azure-mgmt-containerservice">>)>>)
    ELSE IF env.failure = "client"
    THEN Returned(Some(CommandResult(0 - 1, <<>>,
                    <<"Azure SDK RunCommand failed: ">> \o env.error_text)),
                  <<failed>>)
    ELSE IF env.failure = "operation"
    THEN Returned(Some(CommandResult(0 - 1, <<>>,
                    <<"Azure SDK RunCommand failed: ">> \o env.error_text)),
                  <<executing, failed>>)
    ELSE Returned(Some(CommandResult(exit_code, stdout, <<>>)),
                  <<executing,
                    LogEntry("debug",
                      <<"Azure SDK RunCommand completed with exit code ">>
                      \o IntToStr(exit_code))>>)

(***************************************************************************)
(* BaseAKSTool._execute_kubectl_locally.  env is what the child process    *)
(* does: kind "completed" (returncode, stdout, stderr), "timeout"          *)
(* (subprocess.TimeoutExpired after 60 seconds) or "error" (subprocess.run *)
(* raises, error_text = str(e)).                                           *)
(***************************************************************************)
\* shlex.split(s) in POSIX mode: [error |-> str(e), tokens |-> <<>>] when it
\* raises ValueError, else [error |-> "", tokens |-> the tokens].  state is " " (between tokens), "a" (inside a token), "'" or
\* "\"" (inside quotes); esc is the state a backslash was met in, or "".
RECURSIVE ShlexFrom(_, _, _, _, _, _)
ShlexFrom(s, k, state, esc, cur, toks) ==
    IF k > Len(s)
    THEN IF esc # "" THEN [error |-> <<"No escaped character">>, tokens |-> <<>>]
         ELSE IF state \in {"'", "\""}
         THEN [error |-> <<"No closing quotation">>, tokens |-> <<>>]
         ELSE IF state = "a" THEN [error |-> <<>>, tokens |-> Append(toks, cur)]
         ELSE [error |-> <<>>, tokens |-> toks]
    ELSE
    LET c == s[k] IN
    IF esc # ""
    THEN IF esc = "\"" /\ c \notin {"\"", "\\"}
         THEN ShlexFrom(s, k + 1, esc, "", cur \o <<"\\", c>>, toks)
         ELSE ShlexFrom(s, k + 1, esc, "", Append(cur, c), toks)
    ELSE IF state = "'"
    THEN IF c = "'" THEN ShlexFrom(s, k + 1, "a", "", cur, toks)
         ELSE ShlexFrom(s, k + 1, state, "", Append(cur, c), toks)
    ELSE IF state = "\""
    THEN IF c = "\"" THEN ShlexFrom(s, k + 1, "a", "", cur, toks)
         ELSE IF c = "\\" THEN ShlexFrom(s, k + 1, state, "\"", cur, toks)
         ELSE ShlexFrom(s, k + 1, state, "", Append(cur, c), toks)
    ELSE IF IsSpace(c)
    THEN IF state = "a" THEN ShlexFrom(s, k + 1, " ", "", <<>>, Append(toks, cur))
         ELSE ShlexFrom(s, k + 1, " ", "", <<>>, toks)
    ELSE IF c \in {"'", "\""} THEN ShlexFrom(s, k + 1, c, "", cur, toks)
    ELSE IF c = "\\" THEN ShlexFrom(s, k + 1, "a", "a", cur, toks)
    ELSE ShlexFrom(s, k + 1, "a", "", Append(cur, c), toks)

ShlexSplit(s) == ShlexFrom(s, 1, " ", "", <<>>, <<>>)

\* ' '.join(tokens)
RECURSIVE JoinSpace(_)
JoinSpace(tokens) ==
    IF tokens = <<>> THEN <<>>
    ELSE IF Len(tokens) = 1 THEN tokens[1]
    ELSE tokens[1] \o <<" ">> \o JoinSpace(Tail(tokens))

\* fault: shlex.split is called before the try statement, so that its
\* ValueError leaves the executor
execute_kubectl_locally_split_outside_try(args, env) ==
    LET split == ShlexSplit(args)
        command == <<<<"kubectl">>>> \o split.tokens
        executing ==
            LogEntry("debug",
              <<"Executing local kubectl command: ">> \o JoinSpace(command))
    IN
    IF split.error # <<>>
    THEN Raised(Exception("ValueError", split.error), <<>>)
    ELSE IF env.kind = "timeout"
    THEN Returned(Some(CommandResult(0 - 1, <<>>,
                    <<"Command timed out after 60 seconds: kubectl ">> \o args)),
                  <<executing,
                    LogEntry("error",
                      <<"kubectl command timed out after 60 seconds: ">> \o args)>>)
    ELSE IF env.kind = "error"
    THEN Returned(Some(CommandResult(0 - 1, <<>>,
                    <<"Failed to execute kubectl command: ">> \o env.error_text)),
                  <<executing,
                    LogEntry("error",
                      <<"Failed to execute kubectl command: ">> \o args
                      \o Traceback(env.error_text))>>)
    ELSE Returned(Some(CommandResult(env.returncode, env.stdout, env.stderr)),
                  <<executing,
                    LogEntry("debug",
                      <<"kubectl command completed with exit code ">>
                      \o IntToStr(env.returncode))>>)

execute_kubectl_locally(args, env) ==
    LET split == ShlexSplit(args)
        failure(error_text) ==
            Returned(Some(CommandResult(0 - 1, <<>>,
                       <<"Failed to execute kubectl command: ">> \o error_text)),
                     <<LogEntry("error",
                         <<"Failed to execute kubectl command: ">> \o args
                         \o Traceback(error_text))>>)
    IN
    IF split.error # <<>>
    THEN failure(split.error)
    ELSE
    LET command == <<<<"kubectl">>>> \o split.tokens
        executing ==
            LogEntry("debug",
              <<"Executing local kubectl command: ">> \o JoinSpace(command))
    IN
    IF env.kind = "timeout"
    THEN Returned(Some(CommandResult(0 - 1, <<>>,
                    <<"Command timed out after 60 seconds: kubectl ">> \o args)),
                  <<executing,
                    LogEntry("error",
                      <<"kubectl command timed out after 60 seconds: ">> \o args)>>)
    ELSE IF env.kind = "error"
    THEN [failure(env.error_text) EXCEPT !.logs = <<executing>> \o @]
    ELSE Returned(Some(CommandResult(env.returncode, env.stdout, env.stderr)),
                  <<executing,
                    LogEntry("debug",
                      <<"kubectl command completed with exit code ">>
                      \o IntToStr(env.returncode))>>)

(***************************************************************************)
(* CallKubectl._parse_kubectl_output and json.loads.  A JSON value is a    *)
(* record [type, value]: "dict" with value a sequence of [key, value],     *)
(* "list" with value a sequence of values, "str" with value the text,      *)
(* "int" with value the sequence of its digits.  json.loads is modelled    *)
(* for texts made of whitespace, brackets, braces, commas, colons, double  *)
(* quoted text without escapes, and unsigned integers.  The scanner of     *)
(* json.loads recurses once per nested list and raises RecursionError, not *)
(* JSONDecodeError, when the nesting exceeds the recursion limit of the    *)
(* interpreter; TooDeep is one element of a text that stands for a run of  *)
(* "[" longer than that limit.                                             *)
(***************************************************************************)
JsonValue(type, value) == [type |-> type, value |-> value]

TooDeep == "[[[[[[[[...[ (nested deeper than the recursion limit)"

\* the scanner raises JSONDecodeError
JsonFail == [ok |-> FALSE, raises |-> FALSE, val |-> JsonValue("none", <<>>), pos |-> 0]
\* the scanner raises RecursionError
JsonRaise == [ok |-> FALSE, raises |-> TRUE, val |-> JsonValue("none", <<>>), pos |-> 0]
JsonOk(val, pos) == [ok |-> TRUE, raises |-> FALSE, val |-> val, pos |-> pos]

IsJsonSpace(c) == c \in {" ", "\t", "\n", "\r"}
IsDigit(c) == \E k \in 1..10 : DigitChars[k] = c

RECURSIVE SkipWs(_, _)
SkipWs(s, k) == IF k <= Len(s) /\ IsJsonSpace(s[k]) THEN SkipWs(s, k + 1) ELSE k

RECURSIVE DigitsEnd(_, _)
DigitsEnd(s, k) == IF k <= Len(s) /\ IsDigit(s[k]) THEN DigitsEnd(s, k + 1) ELSE k

\* index of the closing quote of the string whose text starts at k, or 0
RECURSIVE StringEnd(_, _)
StringEnd(s, k) ==
    IF k > Len(s) \/ s[k] \in {"\\", "\n", "\t"} THEN 0
    ELSE IF s[k] = "\"" THEN k
    ELSE StringEnd(s, k + 1)

RECURSIVE JsonParseValue(_, _)
RECURSIVE JsonParseItems(_, _, _)
RECURSIVE JsonParseMembers(_, _, _)

\* the JSON value that starts at index k
JsonParseValue(s, k) ==
    IF k > Len(s) THEN JsonFail
    ELSE IF s[k] = TooDeep THEN JsonRaise
    ELSE IF s[k] = "[" THEN
         LET k1 == SkipWs(s, k + 1) IN
         IF k1 <= Len(s) /\ s[k1] = "]" THEN JsonOk(JsonValue("list", <<>>), k1 + 1)
         ELSE JsonParseItems(s, k1, <<>>)
    ELSE IF s[k] = "{" THEN
         LET k1 == SkipWs(s, k + 1) IN
         IF k1 <= Len(s) /\ s[k1] = "}" THEN JsonOk(JsonValue("dict", <<>>), k1 + 1)
         ELSE JsonParseMembers(s, k1, <<>>)
    ELSE IF s[k] = "\"" THEN
         LET e == StringEnd(s, k + 1) IN
         IF e = 0 THEN JsonFail
         ELSE JsonOk(JsonValue("str", SubSeq(s, k + 1, e - 1)), e + 1)
    ELSE IF IsDigit(s[k]) THEN
         LET e == IF s[k] = "0" THEN k + 1 ELSE DigitsEnd(s, k) IN
         JsonOk(JsonValue("int", SubSeq(s, k, e - 1)), e)
    ELSE JsonFail

\* the rest of a list, from the item that starts at index k
JsonParseItems(s, k, items) ==
    LET v == JsonParseValue(s, k)
        k1 == SkipWs(s, v.pos)
    IN
    IF ~v.ok THEN v
    ELSE IF k1 > Len(s) THEN JsonFail
    ELSE IF s[k1] = "]" THEN JsonOk(JsonValue("list", Append(items, v.val)), k1 + 1)
    ELSE IF s[k1] = "," THEN JsonParseItems(s, SkipWs(s, k1 + 1), Append(items, v.val))
    ELSE JsonFail

\* the rest of an object, from the member whose key starts at index k
JsonParseMembers(s, k, members) ==
    LET key == IF k <= Len(s) /\ s[k] = "\"" THEN JsonParseValue(s, k) ELSE JsonFail
        k1 == SkipWs(s, key.pos)
        v == IF key.ok /\ k1 <= Len(s) /\ s[k1] = ":"
             THEN JsonParseValue(s, SkipWs(s, k1 + 1)) ELSE JsonFail
        k2 == SkipWs(s, v.pos)
        member == [key |-> key.val.value, value |-> v.val]
    IN
    IF ~v.ok THEN v
    ELSE IF k2 > Len(s) THEN JsonFail
    ELSE IF s[k2] = "}" THEN JsonOk(JsonValue("dict", Append(members, member)), k2 + 1)
    ELSE IF s[k2] = "," THEN JsonParseMembers(s, SkipWs(s, k2 + 1), Append(members, member))
    ELSE JsonFail

\* json.loads(s): ok is FALSE when it raises, raises says that what it raises
\* is RecursionError and not JSONDecodeError
json_loads(s) ==
    LET v == JsonParseValue(s, SkipWs(s, 1)) IN
    IF ~v.ok \/ SkipWs(s, v.pos) = Len(s) + 1 THEN v ELSE JsonFail

\* the dict {"output": text}
OutputRecord(text) ==
    JsonValue("dict", <<[key |-> <<"o", "u", "t", "p", "u", "t">>,
                         value |-> JsonValue("str", text)]>>)

\* the value _parse_kubectl_output returns, when it returns
parse_kubectl_output(stdout) ==
    IF stdout = <<>> \/ Strip(stdout) = <<>> THEN OutputRecord(<<>>)
    ELSE IF (StartsWith(Strip(stdout), <<"{">>) \/ StartsWith(Strip(stdout), <<"[">>))
            /\ json_loads(stdout).ok
    THEN json_loads(stdout).val
    ELSE OutputRecord(stdout)

\* fault: the except clause catches every exception of json.loads
parse_kubectl_output_exc_catch_all(stdout) == None

\* the exception that leaves _parse_kubectl_output, Optional: the except
\* clause of aks_kubectl.py 209 catches json.JSONDecodeError only
parse_kubectl_output_exc(stdout) ==
    IF stdout = <<>> \/ Strip(stdout) = <<>> THEN None
    ELSE IF (StartsWith(Strip(stdout), <<"{">>) \/ StartsWith(Strip(stdout), <<"[">>))
            /\ json_loads(stdout).raises
    THEN Some(Exception("RecursionError",
                <<"maximum recursion depth exceeded while decoding a JSON array from a unicode string">>))
    ELSE None

(***************************************************************************)
(* CallKubectl._invoke, in the steps it runs them.                         *)
(***************************************************************************)
StructuredToolResult(status, error, data, echoed, return_code) ==
    [status |-> status, error |-> error, data |-> data, params |-> echoed,
     return_code |-> return_code]

\* fault: the args are not stripped
strip_args_unstripped(p) == Get(p.args, <<>>)

\* kubectl_args = params.get("args", "").strip()
strip_args(p) == Strip(Get(p.args, <<>>))

MissingArgsMessage ==
    <<"Missing required parameter 'args'. Please provide kubectl command arguments.">>

dangerous_commands ==
    { <<"d", "e", "l", "e", "t", "e">>, <<"a", "p", "p", "l", "y">>, <<"c", "r", "e", "a", "t", "e">>,
      <<"p", "a", "t", "c", "h">>, <<"r", "e", "p", "l", "a", "c", "e">>,
      <<"e", "d", "i", "t">> }

\* fault: the first word is compared as written, not lowered
first_word_as_written(args) == IF args = <<>> THEN <<>> ELSE FirstWord(args)

\* first_word = kubectl_args.split()[0].lower() if kubectl_args else ""
first_word(args) == IF args = <<>> THEN <<>> ELSE Lower(FirstWord(args))

\* the policy gate: the warning it logs, if any
policy_gate_logs(args) ==
    IF first_word(args) \in dangerous_commands
    THEN <<LogEntry("warning",
             <<"Attempted to execute potentially dangerous kubectl command: ">>
             \o first_word(args))>>
    ELSE <<>>

\* fault: the routing test never takes the Azure branch
use_azure_sdk_never(ctx_opt) == FALSE

\* `if azure_ctx:` -- an AzureResourceContext object is always true
use_azure_sdk(ctx_opt) == ctx_opt # None

\* fault: the log entry of the Azure path also prints the bearer token
remote_dispatch_log_with_token(ctx, args) ==
    LogEntry("info",
      <<"Executing kubectl command via Azure SDK: kubectl ">> \o args
      \o <<" (subscription=">> \o ctx.subscription_id
      \o <<", resource_group=">> \o ctx.resource_group
      \o <<", resource=">> \o ctx.resource_name
      \o <<", token=">> \o ctx.access_token \o <<")">>)

\* aks_kubectl.py 132-137: the log entry of the Azure multi-tenant path
remote_dispatch_log(ctx, args) ==
    LogEntry("info",
      <<"Executing kubectl command via Azure SDK: kubectl ">> \o args
      \o <<" (subscription=">> \o ctx.subscription_id
      \o <<", resource_group=">> \o ctx.resource_group
      \o <<", resource=">> \o ctx.resource_name \o <<")">>)

\* fault: the ImportError falls through to the generic except clause
invoke_except_generic(exc, args, p) ==
    Returned(Some(StructuredToolResult("error",
                    Some(<<"Failed to execute kubectl command: ">> \o exc.msg),
                    None, p, None)),
             <<LogEntry("error",
                 <<"Failed to execute kubectl command: ">> \o args
                 \o Traceback(exc.msg))>>)

\* the except clauses of _invoke around the executor call
invoke_except(exc, args, p) ==
    IF exc.type \in {"ImportError", "NotImplementedError"}
    THEN Returned(Some(StructuredToolResult("error", Some(exc.msg), None, p, None)),
                  <<>>)
    ELSE Returned(Some(StructuredToolResult("error",
                         Some(<<"Failed to execute kubectl command: ">> \o exc.msg),
                         None, p, None)),
                  <<LogEntry("error",
                      <<"Failed to execute kubectl command: ">> \o args
                      \o Traceback(exc.msg))>>)

\* fault: only a positive exit code counts as a failure
assemble_result_positive_only(res, p) ==
    IF res.exit_code > 0
    THEN StructuredToolResult("error",
           Some(<<"kubectl command failed (exit code ">> \o IntToStr(res.exit_code)
                \o <<"): ">> \o res.stderr),
           None, p, Some(res.exit_code))
    ELSE StructuredToolResult("success", None,
           Some(parse_kubectl_output(res.stdout)), p, Some(res.exit_code))

\* the exception that leaves the result assembly, Optional: the call of
\* _parse_kubectl_output (aks_kubectl.py 180) is outside the try statement
assemble_result_exc(res) ==
    IF res.exit_code # 0 THEN None ELSE parse_kubectl_output_exc(res.stdout)

\* result assembly from the executor's dict
assemble_result(res, p) ==
    IF res.exit_code # 0
    THEN StructuredToolResult("error",
           Some(<<"kubectl command failed (exit code ">> \o IntToStr(res.exit_code)
                \o <<"): ">> \o res.stderr),
           None, p, Some(res.exit_code))
    ELSE StructuredToolResult("success", None,
           Some(parse_kubectl_output(res.stdout)), p, Some(res.exit_code))

(***************************************************************************)
(* Inputs: the requests a caller can send and what the backends can do.    *)
(***************************************************************************)
Inv == {1, 2}               \* invocation identifiers

MaxExitCode == 2            \* child and remote exit codes range over -1..MaxExitCode

ExitCodes == (0 - 1)..MaxExitCode

ValidResourceId ==
    <<"/", "s", "u", "b", "s", "c", "r", "i", "p", "t", "i", "o", "n", "s", "/", "s", "u", "b", "-", "1", "2", "3", "/", "r", "e", "s", "o", "u", "r", "c", "e", "G", "r", "o", "u", "p", "s", "/", "r", "g", "-", "t", "e", "s", "t", "/", "p", "r", "o", "v", "i", "d", "e", "r", "s", "/", "M", "i", "c", "r", "o", "s", "o", "f", "t", ".", "C", "o", "n", "t", "a", "i", "n", "e", "r", "S", "e", "r", "v", "i", "c", "e", "/", "m", "a", "n", "a", "g", "e", "d", "C", "l", "u", "s", "t", "e", "r", "s", "/", "c", "l", "u", "s", "t", "e", "r", "-", "t", "e", "s", "t">>

\* surrounding whitespace and other spellings of the keywords
PaddedResourceId ==
    <<" ", "/", "S", "U", "B", "S", "C", "R", "I", "P", "T", "I", "O", "N", "S", "/", "S", "u", "b", "-", "9", "/", "r", "e", "s", "o", "u", "r", "c", "e", "g", "r", "o", "u", "p", "s", "/", "R", "G", "/", "P", "r", "o", "v", "i", "d", "e", "r", "s", "/", "p", "/", "t", "/", "N", "a", "m", "e", " ", "\n">>

ParamsInputs ==
    { [args |-> a] : a \in
        { None, Some(<<>>), Some(<<" ", "\n">>),
          Some(<<"g", "e", "t", " ", "p", "o", "d", "s">>),
          Some(<<" ", " ", "g", "e", "t", " ", "p", "o", "d", "s", " ", "-", "o", " ", "j", "s", "o", "n", "\n">>),
          Some(<<"d", "e", "l", "e", "t", "e", " ", "p", "o", "d", " ", "p">>),
          Some(<<"A", "p", "p", "l", "y", "	", "-", "f", " ", "x">>),
          Some(<<"g", "e", "t", " ", "'", "x">>) } }

CloudInputs ==
    { None, Some(<<>>), Some(<<"a", "w", "s">>), Some(AZURE),
      Some(<<"A", "z", "u", "r", "e">>) }

ResourceIdFields ==
    { None, Some(<<>>), Some(<<"i", "n", "v", "a", "l", "i", "d", "-", "i", "d">>),
      Some(ValidResourceId), Some(PaddedResourceId) }

TOKEN == <<"t", "o", "k", "e", "n", "-", "1", "2", "3">>

TokenInputs == { None, Some(<<>>), Some(TOKEN) }

TenantInputs == { None, Some(<<"t", "e", "n", "a", "n", "t", "-", "1", "2", "3">>) }

RequestContextInputs ==
    { None } \cup
    { Some([cloud |-> c, resource_id |-> r, access_token |-> a, tenant_id |-> t]) :
        c \in CloudInputs, r \in ResourceIdFields, a \in TokenInputs, t \in TenantInputs }

StdoutTexts ==
    { <<>>, <<" ", "\n">>,
      <<"N", "A", "M", "E", " ", "R", "E", "A", "D", "Y", "\n", "p", "o", "d", "-", "1", " ", "1", "/", "1">>,
      <<"{", "\"", "a", "p", "i", "V", "e", "r", "s", "i", "o", "n", "\"", ":", " ", "\"", "v", "1", "\"", "}">>,
      <<" ", "[", "1", ",", " ", "{", "}", "]", "\n">>,
      <<"{", "\"", "a", "\"", ":", " ">>,
      <<"[", TooDeep>> }

StderrTexts == { <<>>, <<"E", "r", "r", "o", "r", ":", " ", "k", "u", "b", "e", "c", "t", "l", " ", "n", "o", "t", " ", "f", "o", "u", "n", "d">> }

ErrorTexts == { <<"c", "o", "n", "n", "e", "c", "t", "i", "o", "n", " ", "t", "i", "m", "e", "d", " ", "o", "u", "t">> }

NoRemoteResult == [has_exit_code |-> FALSE, exit_code |-> 0, has_logs |-> FALSE, logs |-> <<>>]

\* the operation completed, or failed, within the 300 seconds
InTime == [timed_out |-> FALSE]

RemoteEnvs ==
    { [sdk_installed |-> FALSE, failure |-> "none", error_text |-> <<>>] @@ NoRemoteResult @@ InTime }
    \cup
    { [sdk_installed |-> TRUE, failure |-> f, error_text |-> e] @@ NoRemoteResult @@ InTime :
        f \in {"client", "operation"}, e \in ErrorTexts }
    \cup
    { [sdk_installed |-> TRUE, failure |-> "none", error_text |-> <<>>,
       has_exit_code |-> TRUE, exit_code |-> c, has_logs |-> TRUE, logs |-> l] @@ InTime :
        c \in ExitCodes, l \in StdoutTexts }
    \cup
    { [sdk_installed |-> TRUE, failure |-> "none", error_text |-> <<>>,
       has_exit_code |-> FALSE, exit_code |-> 0, has_logs |-> h, logs |-> l] @@ InTime :
        h \in BOOLEAN, l \in {<<"N", "A", "M", "E", " ", "R", "E", "A", "D", "Y", "\n", "p", "o", "d", "-", "1", " ", "1", "/", "1">>} }
    \cup
    \* the 300 seconds elapse: poller.result returns what is available so far
    { [sdk_installed |-> TRUE, failure |-> "none", error_text |-> <<>>,
       timed_out |-> TRUE] @@ NoRemoteResult }

LocalEnvs ==
    { [kind |-> "completed", returncode |-> c, stdout |-> o, stderr |-> e,
       error_text |-> <<>>] : c \in ExitCodes, o \in StdoutTexts, e \in StderrTexts }
    \cup
    { [kind |-> k, returncode |-> 0, stdout |-> <<>>, stderr |-> <<>>,
       error_text |-> e] : k \in {"timeout", "error"}, e \in ErrorTexts }

(***************************************************************************)
(* The state machine.  An invocation runs _invoke from "start" to "done"   *)
(* (a StructuredToolResult is returned), "raised" (the ValueError of       *)
(* _get_resource_context left _invoke) or "crashed" (an exception of the   *)
(* result assembly left _invoke); "remote" and "local" are the states in   *)
(* which it is blocked inside an executor.                                 *)
(***************************************************************************)
NoParams == [args |-> None]

\* the value of repr_in outside the direct calls of repr
NoContext == AzureResourceContext(<<>>, <<>>, <<>>, <<>>, <<>>, <<>>, None)

\* one invocation, of identifier 1, with any request
Init ==
    /\ pc = [i \in Inv |-> IF i = 1 THEN "start" ELSE "unused"]
    /\ \E p \in ParamsInputs : params = [i \in Inv |-> IF i = 1 THEN p ELSE NoParams]
    /\ \E rc \in RequestContextInputs :
          request_context = [i \in Inv |-> IF i = 1 THEN rc ELSE None]
    /\ kubectl_args = [i \in Inv |-> <<>>]
    /\ azure_ctx = [i \in Inv |-> None]
    /\ result = [i \in Inv |-> None]
    /\ ret = [i \in Inv |-> None]
    /\ raised = [i \in Inv |-> None]
    /\ remote_calls = [i \in Inv |-> <<>>]
    /\ local_calls = [i \in Inv |-> <<>>]
    /\ logs = <<>>
    /\ parse_in = <<>>
    /\ parse_out = None
    /\ stdout_in = <<>>
    /\ output_out = None
    /\ repr_in = NoContext
    /\ repr_out = None
    /\ backend = [i \in Inv |-> None]
    /\ sdk_calls = <<>>
    /\ crash = [i \in Inv |-> None]

\* aks_kubectl.py 105-112: the empty-argument check
invoke_check_args(i) ==
    /\ pc[i] = "start"
    /\ kubectl_args' = [kubectl_args EXCEPT ![i] = strip_args(params[i])]
    /\ IF strip_args(params[i]) = <<>>
       THEN /\ ret' = [ret EXCEPT ![i] =
                         Some(StructuredToolResult("error", Some(MissingArgsMessage),
                                                   None, params[i], None))]
            /\ pc' = [pc EXCEPT ![i] = "done"]
       ELSE /\ ret' = ret
            /\ pc' = [pc EXCEPT ![i] = "gate"]
    /\ UNCHANGED <<params, request_context, azure_ctx, result, raised,
                   remote_calls, local_calls, logs, harness_vars,
                   backend, sdk_calls, crash>>

\* fault: the policy gate is placed after the call of _get_resource_context, so
\* that a request whose context is rejected never reaches the gate
invoke_policy_gate_after_extraction(i) ==
    /\ pc[i] = "gate"
    /\ IF get_resource_context(request_context[i]).exc # None
       THEN /\ logs' = logs \o get_resource_context(request_context[i]).logs
            /\ raised' = [raised EXCEPT ![i] = get_resource_context(request_context[i]).exc]
            /\ pc' = [pc EXCEPT ![i] = "raised"]
            /\ azure_ctx' = azure_ctx
       ELSE /\ logs' = logs \o get_resource_context(request_context[i]).logs
                        \o policy_gate_logs(kubectl_args[i])
            /\ azure_ctx' = [azure_ctx EXCEPT ![i] = get_resource_context(request_context[i]).value]
            /\ pc' = [pc EXCEPT ![i] = "dispatch"]
            /\ raised' = raised
    /\ UNCHANGED <<params, request_context, kubectl_args, result, ret,
                   remote_calls, local_calls, harness_vars,
                   backend, sdk_calls, crash>>

\* aks_kubectl.py 114-124: the policy gate
invoke_policy_gate(i) ==
    /\ pc[i] = "gate"
    /\ logs' = logs \o policy_gate_logs(kubectl_args[i])
    /\ pc' = [pc EXCEPT ![i] = "extract"]
    /\ UNCHANGED <<params, request_context, kubectl_args, azure_ctx, result, ret,
                   raised, remote_calls, local_calls, harness_vars,
                   backend, sdk_calls, crash>>

\* fault: the extraction is moved inside the try statement, so that the generic
\* except clause turns its ValueError into a StructuredToolResult
invoke_get_context_in_try(i) ==
    /\ pc[i] = "extract"
    /\ LET r == get_resource_context(request_context[i]) IN
       /\ IF r.exc # None
          THEN LET h == invoke_except(r.exc[1], kubectl_args[i], params[i]) IN
               /\ logs' = logs \o r.logs \o h.logs
               /\ ret' = [ret EXCEPT ![i] = h.value]
               /\ pc' = [pc EXCEPT ![i] = "done"]
               /\ azure_ctx' = azure_ctx
          ELSE /\ logs' = logs \o r.logs
               /\ azure_ctx' = [azure_ctx EXCEPT ![i] = r.value]
               /\ pc' = [pc EXCEPT ![i] = "dispatch"]
               /\ ret' = ret
    /\ UNCHANGED <<params, request_context, kubectl_args, result, raised,
                   remote_calls, local_calls, harness_vars,
                   backend, sdk_calls, crash>>

\* aks_kubectl.py 127: azure_ctx = self._get_resource_context(context), outside
\* the try statement, so that its ValueError leaves _invoke
invoke_get_context(i) ==
    /\ pc[i] = "extract"
    /\ logs' = logs \o get_resource_context(request_context[i]).logs
    /\ IF get_resource_context(request_context[i]).exc # None
       THEN /\ raised' = [raised EXCEPT ![i] = get_resource_context(request_context[i]).exc]
            /\ pc' = [pc EXCEPT ![i] = "raised"]
            /\ azure_ctx' = azure_ctx
       ELSE /\ azure_ctx' = [azure_ctx EXCEPT ![i] = get_resource_context(request_context[i]).value]
            /\ pc' = [pc EXCEPT ![i] = "dispatch"]
            /\ raised' = raised
    /\ UNCHANGED <<params, request_context, kubectl_args, result, ret,
                   remote_calls, local_calls, harness_vars,
                   backend, sdk_calls, crash>>

\* aks_kubectl.py 130-144: the routing decision and the call of one executor
invoke_dispatch(i) ==
    /\ pc[i] = "dispatch"
    /\ IF use_azure_sdk(azure_ctx[i])
       THEN /\ logs' = Append(logs, remote_dispatch_log(azure_ctx[i][1], kubectl_args[i]))
            /\ remote_calls' = [remote_calls EXCEPT ![i] =
                  Append(@, [azure_ctx |-> azure_ctx[i][1], kubectl_args |-> kubectl_args[i]])]
            /\ local_calls' = local_calls
            /\ pc' = [pc EXCEPT ![i] = "remote"]
       ELSE /\ logs' = Append(logs, LogEntry("info",
                  <<"Executing kubectl command locally: kubectl ">> \o kubectl_args[i]))
            /\ local_calls' = [local_calls EXCEPT ![i] =
                  Append(@, [kubectl_args |-> kubectl_args[i]])]
            /\ remote_calls' = remote_calls
            /\ pc' = [pc EXCEPT ![i] = "local"]
    /\ UNCHANGED <<params, request_context, kubectl_args, azure_ctx, result, ret,
                   raised, harness_vars,
                   backend, sdk_calls, crash>>

\* what _invoke does with the outcome r of the executor it called:
\* aks_kubectl.py 138/144 (result = ...) and 145-166 (the except clauses)
ExecutorReturns(i, r) ==
    IF r.exc # None
    THEN LET h == invoke_except(r.exc[1], kubectl_args[i], params[i]) IN
         /\ logs' = logs \o r.logs \o h.logs
         /\ ret' = [ret EXCEPT ![i] = h.value]
         /\ pc' = [pc EXCEPT ![i] = "done"]
         /\ result' = result
    ELSE /\ logs' = logs \o r.logs
         /\ result' = [result EXCEPT ![i] = r.value]
         /\ pc' = [pc EXCEPT ![i] = "assemble"]
         /\ ret' = ret

\* _execute_kubectl_via_azure_sdk runs and returns or raises, against an SDK
\* that behaves as one of envs
execute_remote(i, envs) ==
    /\ pc[i] = "remote"
    /\ \E env \in envs :
          /\ backend' = [backend EXCEPT ![i] = Some(env)]
          /\ sdk_calls' = sdk_calls \o
                [k \in DOMAIN run_command_calls(azure_ctx[i][1], kubectl_args[i], env) |->
                    [inv |-> i] @@ run_command_calls(azure_ctx[i][1], kubectl_args[i], env)[k]]
          /\ ExecutorReturns(i, execute_kubectl_via_azure_sdk(
                                   azure_ctx[i][1], kubectl_args[i], env))
    /\ UNCHANGED <<params, request_context, kubectl_args, azure_ctx, raised,
                   remote_calls, local_calls, harness_vars, crash>>

invoke_execute_remote(i) == execute_remote(i, RemoteEnvs)

\* _execute_kubectl_locally runs and returns, with a child process that behaves
\* as one of envs
execute_local(i, envs) ==
    /\ pc[i] = "local"
    /\ \E env \in envs :
          /\ backend' = [backend EXCEPT ![i] = Some(env)]
          /\ ExecutorReturns(i, execute_kubectl_locally(kubectl_args[i], env))
    /\ UNCHANGED <<params, request_context, kubectl_args, azure_ctx, raised,
                   remote_calls, local_calls, harness_vars, sdk_calls, crash>>

invoke_execute_local(i) == execute_local(i, LocalEnvs)

\* aks_kubectl.py 168-188: result assembly
invoke_assemble(i) ==
    /\ pc[i] = "assemble"
    /\ IF assemble_result_exc(result[i][1]) # None
       THEN /\ crash' = [crash EXCEPT ![i] = assemble_result_exc(result[i][1])]
            /\ pc' = [pc EXCEPT ![i] = "crashed"]
            /\ ret' = ret
       ELSE /\ ret' = [ret EXCEPT ![i] = Some(assemble_result(result[i][1], params[i]))]
            /\ pc' = [pc EXCEPT ![i] = "done"]
            /\ crash' = crash
    /\ UNCHANGED <<params, request_context, kubectl_args, azure_ctx, result,
                   raised, remote_calls, local_calls, logs, harness_vars,
                   backend, sdk_calls>>

Next ==
    \E i \in Inv :
        \/ invoke_check_args(i)
        \/ invoke_policy_gate(i)
        \/ invoke_get_context(i)
        \/ invoke_dispatch(i)
        \/ invoke_execute_remote(i)
        \/ invoke_execute_local(i)
        \/ invoke_assemble(i)

Spec == Init /\ [][Next]_vars

(***************************************************************************)
(* Two invocations on the same tool instance, run by two threads.  The     *)
(* steps of one invocation interleave with the steps of the other; the     *)
(* logging output is the only state the code shares, and sdk_calls is what *)
(* the Azure service sees of both.                                         *)
(***************************************************************************)
TOKEN2 == <<"t", "o", "k", "e", "n", "-", "4", "5", "6">>

ParamsConc ==
    { [args |-> Some(a)] : a \in
        { <<"g", "e", "t", " ", "p", "o", "d", "s">>,
          <<"D", "e", "l", "e", "t", "e", "\t", "p", "o", "d", " ", "p">> } }

ContextsConc ==
    { None,
      Some([cloud |-> Some(AZURE), resource_id |-> Some(ValidResourceId),
            access_token |-> Some(TOKEN), tenant_id |-> None]),
      Some([cloud |-> Some(AZURE), resource_id |-> Some(PaddedResourceId),
            access_token |-> Some(TOKEN2), tenant_id |-> None]),
      Some([cloud |-> Some(AZURE), resource_id |-> Some(ValidResourceId),
            access_token |-> None, tenant_id |-> None]) }

RemoteEnvsConc ==
    { env \in RemoteEnvs :
        /\ env.exit_code \in {0, 1}
        /\ env.has_exit_code => env.logs = <<>>
        /\ env.failure # "client" }

LocalEnvsConc ==
    { env \in LocalEnvs :
        /\ env.returncode \in {0, 1}
        /\ env.stdout = <<>>
        /\ env.stderr = <<>> }

InitConc ==
    /\ pc = [i \in Inv |-> "start"]
    /\ params \in [Inv -> ParamsConc]
    /\ request_context \in [Inv -> ContextsConc]
    /\ kubectl_args = [i \in Inv |-> <<>>]
    /\ azure_ctx = [i \in Inv |-> None]
    /\ result = [i \in Inv |-> None]
    /\ ret = [i \in Inv |-> None]
    /\ raised = [i \in Inv |-> None]
    /\ remote_calls = [i \in Inv |-> <<>>]
    /\ local_calls = [i \in Inv |-> <<>>]
    /\ logs = <<>>
    /\ parse_in = <<>>
    /\ parse_out = None
    /\ backend = [i \in Inv |-> None]
    /\ sdk_calls = <<>>
    /\ crash = [i \in Inv |-> None]
    /\ stdout_in = <<>>
    /\ output_out = None
    /\ repr_in = NoContext
    /\ repr_out = None

NextConc ==
    \E i \in Inv :
        \/ invoke_check_args(i)
        \/ invoke_policy_gate(i)
        \/ invoke_get_context(i)
        \/ invoke_dispatch(i)
        \/ execute_remote(i, RemoteEnvsConc)
        \/ execute_local(i, LocalEnvsConc)
        \/ invoke_assemble(i)

SpecConc == InitConc /\ [][NextConc]_vars

(***************************************************************************)
(* One invocation that runs to its end.  _invoke is straight-line          *)
(* synchronous code: the thread that runs it takes every step it has       *)
(* reached, and an executor it is blocked in returns, since the child      *)
(* process is given 60 seconds (aks_base.py 337) and poller.result 300     *)
(* seconds (aks_base.py 294).                                              *)
(***************************************************************************)
InitFair ==
    /\ pc = [i \in Inv |-> IF i = 1 THEN "start" ELSE "unused"]
    /\ \E p \in ParamsConc \cup {NoParams} :
          params = [i \in Inv |-> IF i = 1 THEN p ELSE NoParams]
    /\ \E rc \in ContextsConc :
          request_context = [i \in Inv |-> IF i = 1 THEN rc ELSE None]
    /\ kubectl_args = [i \in Inv |-> <<>>]
    /\ azure_ctx = [i \in Inv |-> None]
    /\ result = [i \in Inv |-> None]
    /\ ret = [i \in Inv |-> None]
    /\ raised = [i \in Inv |-> None]
    /\ remote_calls = [i \in Inv |-> <<>>]
    /\ local_calls = [i \in Inv |-> <<>>]
    /\ logs = <<>>
    /\ parse_in = <<>>
    /\ parse_out = None
    /\ backend = [i \in Inv |-> None]
    /\ sdk_calls = <<>>
    /\ crash = [i \in Inv |-> None]
    /\ stdout_in = <<>>
    /\ output_out = None
    /\ repr_in = NoContext
    /\ repr_out = None

\* aks_kubectl.py 127: the call of _get_resource_context ends, by returning
\* or by raising; this is the step invoke_get_context seen on pc alone
get_context_ends(i) ==
    /\ pc[i] = "extract"
    /\ pc' \in {[pc EXCEPT ![i] = "raised"], [pc EXCEPT ![i] = "dispatch"]}

\* every step an invocation has reached is eventually taken
FairInvoke ==
    \A i \in Inv :
        /\ WF_vars(invoke_check_args(i))
        /\ WF_vars(invoke_policy_gate(i))
        /\ WF_pc(get_context_ends(i))
        /\ WF_vars(invoke_dispatch(i))
        /\ WF_vars(execute_remote(i, RemoteEnvsConc))
        /\ WF_vars(execute_local(i, LocalEnvsConc))
        /\ WF_vars(invoke_assemble(i))

SpecFair == InitFair /\ [][NextConc]_vars /\ FairInvoke

(***************************************************************************)
(* _parse_resource_id called on its own, as the unit tests call it.        *)
(***************************************************************************)
SubscriptionsSpellings ==
    { <<"/", "s", "u", "b", "s", "c", "r", "i", "p", "t", "i", "o", "n", "s", "/">>,
      <<"/", "S", "U", "B", "S", "C", "R", "I", "P", "T", "I", "O", "N", "S", "/">>,
      <<"/", "S", "u", "b", "s", "c", "r", "i", "p", "t", "i", "o", "n", "s", "/">> }

ResourceGroupsSpellings ==
    { <<"/", "r", "e", "s", "o", "u", "r", "c", "e", "G", "r", "o", "u", "p", "s", "/">>,
      <<"/", "r", "e", "s", "o", "u", "r", "c", "e", "g", "r", "o", "u", "p", "s", "/">>,
      <<"/", "R", "E", "S", "O", "U", "R", "C", "E", "G", "R", "O", "U", "P", "S", "/">> }

ProvidersSpellings ==
    { <<"/", "p", "r", "o", "v", "i", "d", "e", "r", "s", "/">>,
      <<"/", "P", "R", "O", "V", "I", "D", "E", "R", "S", "/">> }

\* runs of non-slash characters, some with whitespace in them
SubscriptionSegments == { <<"s", "1">>, <<"S", "b">>, <<" ", "x">> }
GroupSegments == { <<"r", "g">>, <<"R", "G">> }
ProviderSegments == { <<"p">>, <<"M", ".", "C">> }
TypeSegments == { <<"t">> }
NameSegments ==
    { <<"n">>, <<"N", "1">>, <<"a", " ", "b">>, <<" ", "n">>,
      <<"n", " ">>, <<"n", "\n">>, <<" ">>, <<"\t", " ">> }

\* /subscriptions/S/resourceGroups/G/providers/P/T/N
FiveSegmentIds ==
    { k1 \o S \o k2 \o G \o k3 \o P \o <<"/">> \o T \o <<"/">> \o N :
        k1 \in SubscriptionsSpellings, k2 \in ResourceGroupsSpellings,
        k3 \in ProvidersSpellings, S \in SubscriptionSegments, G \in GroupSegments,
        P \in ProviderSegments, T \in TypeSegments, N \in NameSegments }

ShortResourceId ==
    <<"/", "s", "u", "b", "s", "c", "r", "i", "p", "t", "i", "o", "n", "s", "/", "s", "/", "r", "e", "s", "o", "u", "r", "c", "e", "G", "r", "o", "u", "p", "s", "/", "g", "/", "p", "r", "o", "v", "i", "d", "e", "r", "s", "/", "p", "/", "t", "/", "n">>

\* texts around the grammar: the invalid ids of test_parse_resource_id_invalid,
\* padded ids, ids with a missing, an empty or an extra segment
OtherIds ==
    { <<>>,
      <<"/", "i", "n", "v", "a", "l", "i", "d", "/", "r", "e", "s", "o", "u", "r", "c", "e", "/", "i", "d">>,
      <<"/", "s", "u", "b", "s", "c", "r", "i", "p", "t", "i", "o", "n", "s", "/", "s", "u", "b", "-", "1", "2", "3">>,
      <<"n", "o", "t", "-", "a", "-", "r", "e", "s", "o", "u", "r", "c", "e", "-", "i", "d">>,
      <<"i", "n", "v", "a", "l", "i", "d", "-", "i", "d">>,
      ValidResourceId, PaddedResourceId,
      <<" ">> \o ShortResourceId, <<"\n", "\t">> \o ShortResourceId,
      ShortResourceId \o <<" ">>, ShortResourceId \o <<"\n">>,
      <<"x">> \o ShortResourceId, <<"/">> \o ShortResourceId,
      ShortResourceId \o <<"/">>, ShortResourceId \o <<"/", "x">>,
      ShortResourceId \o <<" ", "/", "x">>,
      <<"/", "s", "u", "b", "s", "c", "r", "i", "p", "t", "i", "o", "n", "s", "/", "/", "r", "e", "s", "o", "u", "r", "c", "e", "G", "r", "o", "u", "p", "s", "/", "g", "/", "p", "r", "o", "v", "i", "d", "e", "r", "s", "/", "p", "/", "t", "/", "n">>,
      <<"/", "s", "u", "b", "s", "c", "r", "i", "p", "t", "i", "o", "n", "s", "/", "s", "/", "r", "e", "s", "o", "u", "r", "c", "e", "G", "r", "o", "u", "p", "s", "/", "g", "/", "p", "r", "o", "v", "i", "d", "e", "r", "s", "/", "p", "/", "t">>,
      <<"/", "s", "u", "b", "s", "c", "r", "i", "p", "t", "i", "o", "n", "s", "/", "s", "/", "r", "e", "s", "o", "u", "r", "c", "e", "G", "r", "o", "u", "p", "s", "/", "g", "/", "p", "r", "o", "v", "i", "d", "e", "r", "s", "/", "p", "/", "t", "/">>,
      <<"/", "s", "u", "b", "s", "c", "r", "i", "p", "t", "i", "o", "n", "s", "/", "s", "/", "r", "e", "s", "o", "u", "r", "c", "e", "G", "r", "o", "u", "p", "/", "g", "/", "p", "r", "o", "v", "i", "d", "e", "r", "s", "/", "p", "/", "t", "/", "n">> }

ResourceIdInputs == FiveSegmentIds \cup OtherIds

InitParse ==
    /\ pc = [i \in Inv |-> "unused"]
    /\ params = [i \in Inv |-> NoParams]
    /\ request_context = [i \in Inv |-> None]
    /\ kubectl_args = [i \in Inv |-> <<>>]
    /\ azure_ctx = [i \in Inv |-> None]
    /\ result = [i \in Inv |-> None]
    /\ ret = [i \in Inv |-> None]
    /\ raised = [i \in Inv |-> None]
    /\ remote_calls = [i \in Inv |-> <<>>]
    /\ local_calls = [i \in Inv |-> <<>>]
    /\ logs = <<>>
    /\ parse_in \in ResourceIdInputs
    /\ parse_out = None
    /\ stdout_in = <<>>
    /\ output_out = None
    /\ repr_in = NoContext
    /\ repr_out = None
    /\ backend = [i \in Inv |-> None]
    /\ sdk_calls = <<>>
    /\ crash = [i \in Inv |-> None]

\* tool._parse_resource_id(parse_in)
call_parse_resource_id ==
    /\ parse_out = None
    /\ parse_out' = Some(parse_resource_id(parse_in))
    /\ logs' = logs \o parse_resource_id_logs(parse_in)
    /\ UNCHANGED <<invocation_vars, parse_in, sdk_calls, stdout_in, output_out,
                   repr_in, repr_out>>

NextParse == call_parse_resource_id

SpecParse == InitParse /\ [][NextParse]_vars

(***************************************************************************)
(* _parse_kubectl_output called on its own, as the unit tests call it.     *)
(***************************************************************************)
MaxOutputLen == 3           \* the longest text built from OutputChars

OutputChars == { " ", "\n", "{", "}", "[", "]", "1", ",", "x", TooDeep }

OutputInputs ==
    StdoutTexts \cup
    UNION { [1..n -> OutputChars] : n \in 0..MaxOutputLen }

InitOutput ==
    /\ pc = [i \in Inv |-> "unused"]
    /\ params = [i \in Inv |-> NoParams]
    /\ request_context = [i \in Inv |-> None]
    /\ kubectl_args = [i \in Inv |-> <<>>]
    /\ azure_ctx = [i \in Inv |-> None]
    /\ result = [i \in Inv |-> None]
    /\ ret = [i \in Inv |-> None]
    /\ raised = [i \in Inv |-> None]
    /\ remote_calls = [i \in Inv |-> <<>>]
    /\ local_calls = [i \in Inv |-> <<>>]
    /\ logs = <<>>
    /\ parse_in = <<>>
    /\ parse_out = None
    /\ backend = [i \in Inv |-> None]
    /\ sdk_calls = <<>>
    /\ crash = [i \in Inv |-> None]
    /\ stdout_in \in OutputInputs
    /\ output_out = None
    /\ repr_in = NoContext
    /\ repr_out = None

\* tool._parse_kubectl_output(stdout_in)
call_parse_kubectl_output ==
    /\ output_out = None
    /\ output_out' =
          IF parse_kubectl_output_exc(stdout_in) # None
          THEN Some(Raised(parse_kubectl_output_exc(stdout_in)[1], <<>>))
          ELSE Some(Returned(parse_kubectl_output(stdout_in), <<>>))
    /\ UNCHANGED <<invocation_vars, logs, sdk_calls, parse_in, parse_out, stdout_in,
                   repr_in, repr_out>>

NextOutput == call_parse_kubectl_output

SpecOutput == InitOutput /\ [][NextOutput]_vars

(***************************************************************************)
(* repr called on an AzureResourceContext constructed directly, as the     *)
(* unit test does.                                                         *)
(***************************************************************************)
ContextInputs ==
    { AzureResourceContext(AZURE, ValidResourceId, t, s, g, n, tn) :
        t \in { TOKEN, <<"t", "e", "s", "t", "-", "t", "o", "k", "e", "n", "-", "1", "2", "3">> },
        s \in { <<"s", "u", "b", "-", "1", "2", "3">>, <<"S">>, TOKEN },
        g \in { <<"r", "g", "-", "t", "e", "s", "t">>, <<"m", "y", "-">> \o TOKEN },
        n \in { <<"c", "l", "u", "s", "t", "e", "r", "-", "t", "e", "s", "t">>, <<"n">>,
                 <<"t", "o", "k", "e", "n">> },
        tn \in TenantInputs }

InitRepr ==
    /\ pc = [i \in Inv |-> "unused"]
    /\ params = [i \in Inv |-> NoParams]
    /\ request_context = [i \in Inv |-> None]
    /\ kubectl_args = [i \in Inv |-> <<>>]
    /\ azure_ctx = [i \in Inv |-> None]
    /\ result = [i \in Inv |-> None]
    /\ ret = [i \in Inv |-> None]
    /\ raised = [i \in Inv |-> None]
    /\ remote_calls = [i \in Inv |-> <<>>]
    /\ local_calls = [i \in Inv |-> <<>>]
    /\ logs = <<>>
    /\ parse_in = <<>>
    /\ parse_out = None
    /\ backend = [i \in Inv |-> None]
    /\ sdk_calls = <<>>
    /\ crash = [i \in Inv |-> None]
    /\ stdout_in = <<>>
    /\ output_out = None
    /\ repr_in \in ContextInputs
    /\ repr_out = None

\* repr(repr_in)
call_repr ==
    /\ repr_out = None
    /\ repr_out' = Some(AzureResourceContext_repr(repr_in))
    /\ UNCHANGED <<invocation_vars, logs, sdk_calls, parse_in, parse_out, stdout_in,
                   output_out, repr_in>>

NextRepr == call_repr

SpecRepr == InitRepr /\ [][NextRepr]_vars

(***************************************************************************)
(* Properties.                                                             *)
(***************************************************************************)
\* the invocation has passed the routing decision of _invoke
Dispatched(i) == pc[i] \in {"remote", "local", "assemble", "crashed"} \/ (pc[i] = "done" /\ kubectl_args[i] # <<>>)

\* the invocation has passed the call of _get_resource_context
Extracted(i) == pc[i] = "raised" \/ pc[i] = "dispatch" \/ Dispatched(i)

ValidationFails(rc_opt) ==
    /\ rc_opt # None
    /\ rc_opt[1].cloud # None /\ Lower(rc_opt[1].cloud[1]) = AZURE
    /\ \/ rc_opt[1].resource_id \in {None, Some(<<>>)}
       \/ rc_opt[1].access_token \in {None, Some(<<>>)}
       \/ parse_resource_id(rc_opt[1].resource_id[1]) = None

\* C2: when context extraction fails, the invocation ends with the ValueError
\* raised to the caller: no StructuredToolResult is returned in its place and
\* neither executor is ever called.
C2_ValidationErrorPropagates ==
    \A i \in Inv :
        /\ Extracted(i) /\ ValidationFails(request_context[i]) =>
              /\ pc[i] = "raised"
              /\ raised[i] # None /\ raised[i][1].type = "ValueError"
        /\ raised[i] # None =>
              /\ pc[i] = "raised"
              /\ ret[i] = None
              /\ remote_calls[i] = <<>> /\ local_calls[i] = <<>>
              /\ result[i] = None

\* a request with an unparseable resource_id has been rejected
C2_Witness ==
    /\ pc[1] = "raised"
    /\ request_context[1][1].resource_id = Some(<<"i", "n", "v", "a", "l", "i", "d", "-", "i", "d">>)
    /\ request_context[1][1].access_token = Some(TOKEN)
    /\ StartsWith(raised[1][1].msg, <<"Failed to parse Azure resource_id: ">>)

\* C3: every AzureResourceContext that _get_resource_context returns has cloud
\* "azure", the non-empty resource_id and access_token of the request context,
\* a resource_id that parses, the subscription_id, resource_group and
\* resource_name that _parse_resource_id returns for it, and the request
\* context's tenant_id (None when the request has none).
C3_ContextMatchesRequest ==
    \A i \in Inv :
        azure_ctx[i] # None =>
            LET ctx == azure_ctx[i][1]
                rc == request_context[i][1]
                parsed == parse_resource_id(ctx.resource_id)
            IN  /\ ctx.cloud = AZURE
                /\ rc.resource_id # None /\ ctx.resource_id = rc.resource_id[1]
                /\ ctx.resource_id # <<>>
                /\ rc.access_token # None /\ ctx.access_token = rc.access_token[1]
                /\ ctx.access_token # <<>>
                /\ parsed # None
                /\ <<ctx.subscription_id, ctx.resource_group, ctx.resource_name>> = parsed[1]
                /\ ctx.tenant_id = rc.tenant_id

\* the context of the valid request of test_get_resource_context_valid
C3_Witness ==
    /\ azure_ctx[1] # None
    /\ azure_ctx[1][1].resource_id = ValidResourceId
    /\ azure_ctx[1][1].subscription_id = <<"s", "u", "b", "-", "1", "2", "3">>
    /\ azure_ctx[1][1].resource_group = <<"r", "g", "-", "t", "e", "s", "t">>
    /\ azure_ctx[1][1].resource_name =
          <<"c", "l", "u", "s", "t", "e", "r", "-", "t", "e", "s", "t">>
    /\ azure_ctx[1][1].tenant_id # None

\* the text p occurs somewhere in the JSON value v
RECURSIVE JsonContains(_, _)
JsonContains(v, p) ==
    IF v.type \in {"str", "int"} THEN Contains(v.value, p)
    ELSE IF v.type = "list" THEN \E k \in DOMAIN v.value : JsonContains(v.value[k], p)
    ELSE \E k \in DOMAIN v.value :
            Contains(v.value[k].key, p) \/ JsonContains(v.value[k].value, p)

\* the access_token of invocation i's request, when it has a non-empty one
HasToken(i) ==
    /\ request_context[i] # None
    /\ request_context[i][1].access_token \notin {None, Some(<<>>)}

\* C4: in every outcome, no log entry, no exception message and no field
\* (error, data, params) of the StructuredToolResult contains the access_token
\* of the request.  The token is an opaque secret: a text that occurs in no
\* other input of the call (args, the other context fields, backend output).
C4_TokenNeverDisclosed ==
    \A i \in Inv :
        HasToken(i) =>
            LET token == request_context[i][1].access_token[1] IN
            /\ \A k \in DOMAIN logs : ~Contains(logs[k].msg, token)
            /\ raised[i] # None => ~Contains(raised[i][1].msg, token)
            /\ ret[i] # None =>
                  /\ ret[i][1].error # None => ~Contains(ret[i][1].error[1], token)
                  /\ ret[i][1].data # None => ~JsonContains(ret[i][1].data[1], token)
                  /\ ret[i][1].params.args # None =>
                        ~Contains(ret[i][1].params.args[1], token)

\* a remote call made with the token has failed and has been logged and reported
C4_Witness ==
    /\ HasToken(1)
    /\ pc[1] = "done"
    /\ remote_calls[1] # <<>> /\ remote_calls[1][1].azure_ctx.access_token = TOKEN
    /\ ret[1][1].status = "error"
    /\ Len(logs) >= 4

\* the args parameter is missing, empty or only whitespace
ArgsBlank(p) == p.args = None \/ \A k \in DOMAIN p.args[1] : IsSpace(p.args[1][k])

\* C5: when args is missing, empty or only whitespace, _invoke returns an error
\* StructuredToolResult whose message names the missing 'args' parameter, with
\* no return_code, and calls neither executor.
C5_MissingArgsRejected ==
    \A i \in Inv :
        ArgsBlank(params[i]) /\ pc[i] \notin {"unused", "start"} =>
            /\ pc[i] = "done"
            /\ raised[i] = None
            /\ ret[i] # None
            /\ ret[i][1].status = "error"
            /\ ret[i][1].error = Some(MissingArgsMessage)
            /\ ret[i][1].data = None
            /\ ret[i][1].return_code = None
            /\ remote_calls[i] = <<>> /\ local_calls[i] = <<>>
            /\ result[i] = None

\* whitespace-only args have been rejected
C5_Witness ==
    /\ pc[1] = "done"
    /\ params[1].args = Some(<<" ", "\n">>)
    /\ ret[1] # None /\ ret[1][1].status = "error"

RECURSIVE SplitSlash(_)
SplitSlash(s) ==
    LET e == RunEnd(s, 1) IN
    IF e > Len(s) THEN <<s>>
    ELSE <<SubSeq(s, 1, e - 1)>> \o SplitSlash(SubSeq(s, e + 1, Len(s)))

SUBSCRIPTIONS == <<"s", "u", "b", "s", "c", "r", "i", "p", "t", "i", "o", "n", "s">>
RESOURCEGROUPS == <<"r", "e", "s", "o", "u", "r", "c", "e", "g", "r", "o", "u", "p", "s">>
PROVIDERS == <<"p", "r", "o", "v", "i", "d", "e", "r", "s">>

\* the whole text s has the form /subscriptions/S/resourceGroups/G/providers/P/T/N
\* with S, G, P, T, N non-empty runs of non-slash characters and any spelling
\* of the three keywords
IsFiveSegmentForm(s) ==
    LET part == SplitSlash(s) IN
    /\ Len(part) = 9
    /\ part[1] = <<>>
    /\ Lower(part[2]) = SUBSCRIPTIONS /\ part[3] # <<>>
    /\ Lower(part[4]) = RESOURCEGROUPS /\ part[5] # <<>>
    /\ Lower(part[6]) = PROVIDERS /\ part[7] # <<>>
    /\ part[8] # <<>>
    /\ part[9] # <<>>

\* C7 as stated: for every text of the five-segment form, _parse_resource_id
\* returns exactly (S, G, N).
C7_Original ==
    parse_out # None /\ IsFiveSegmentForm(parse_in) =>
        LET part == SplitSlash(parse_in) IN
        parse_out[1] = Some(<<part[3], part[5], part[9]>>)

\* C7, amended: for every text of the five-segment form, in any spelling of the
\* keywords, _parse_resource_id returns (S, G, N') with the case of S, G and N
\* preserved, where N' is N without its trailing whitespace: exactly (S, G, N)
\* when N does not end in whitespace, and None when N is only whitespace.
C7_TripleUpToTrailingWhitespace ==
    parse_out # None /\ IsFiveSegmentForm(parse_in) =>
        LET part == SplitSlash(parse_in) IN
        /\ RStrip(part[9]) # <<>> =>
              parse_out[1] = Some(<<part[3], part[5], RStrip(part[9])>>)
        /\ RStrip(part[9]) = <<>> => parse_out[1] = None
        /\ RStrip(part[9]) = part[9] =>
              parse_out[1] = Some(<<part[3], part[5], part[9]>>)

\* an id with upper-case keywords and a mixed-case subscription has been parsed
C7_Witness ==
    /\ parse_out # None /\ parse_out[1] # None
    /\ IsFiveSegmentForm(parse_in)
    /\ StartsWith(parse_in, <<"/", "S", "U", "B", "S", "C", "R", "I", "P", "T", "I", "O", "N", "S", "/">>)
    /\ parse_out[1][1] = <<<<"S", "b">>, <<"R", "G">>, <<"N", "1">>>>

InvalidIdsOfTheTest ==
    { <<>>,
      <<"/", "i", "n", "v", "a", "l", "i", "d", "/", "r", "e", "s", "o", "u", "r", "c", "e", "/", "i", "d">>,
      <<"/", "s", "u", "b", "s", "c", "r", "i", "p", "t", "i", "o", "n", "s", "/", "s", "u", "b", "-", "1", "2", "3">>,
      <<"n", "o", "t", "-", "a", "-", "r", "e", "s", "o", "u", "r", "c", "e", "-", "i", "d">> }

\* C8 as stated: a triple is returned only when the whole input, from its first
\* to its last character, has the five-segment form.
C8_Original ==
    parse_out # None =>
        /\ parse_out[1] # None => IsFiveSegmentForm(parse_in)
        /\ parse_in \in InvalidIdsOfTheTest => parse_out[1] = None

\* C8, amended: a triple is returned only when the whole input, once leading and
\* trailing whitespace is removed, has the five-segment form; every other
\* input, the four invalid ids of the test among them, yields None.
C8_WholeTrimmedInputMatches ==
    parse_out # None =>
        /\ parse_out[1] # None <=> IsFiveSegmentForm(Strip(parse_in))
        /\ parse_in \in InvalidIdsOfTheTest => parse_out[1] = None

\* an id followed by one more path segment has been refused
C8_Witness ==
    /\ parse_out = Some(None)
    /\ parse_in = ShortResourceId \o <<"/", "x">>

\* C9: for an absent or empty request_context, _get_resource_context returns
\* None and raises nothing.
C9_NoContextIsNone ==
    \A i \in Inv :
        Extracted(i) /\ request_context[i] \in {None, Some(EmptyDict)} =>
            /\ azure_ctx[i] = None
            /\ raised[i] = None
            /\ pc[i] # "raised"

\* a call with an empty request_context has reached the local executor
C9_Witness ==
    /\ request_context[1] = Some(EmptyDict)
    /\ pc[1] = "local"
    /\ local_calls[1] # <<>>

\* C10 as stated: a cloud value other than the literal "azure" gives None,
\* and the remote executor is called only when cloud equals the literal.
C10_Original ==
    \A i \in Inv :
        /\ ( /\ Extracted(i)
             /\ request_context[i] # None
             /\ request_context[i][1].cloud # None
             /\ request_context[i][1].cloud[1] # AZURE )
           => azure_ctx[i] = None /\ raised[i] = None /\ remote_calls[i] = <<>>
        /\ remote_calls[i] # <<>> => request_context[i][1].cloud = Some(AZURE)

\* C10, amended: a cloud value that differs from "azure" when letter case is
\* ignored gives None whatever the other fields hold, and the command goes to
\* the local executor; the remote executor is called only when cloud equals
\* "azure" up to letter case.
C10_OtherCloudIsLocal ==
    \A i \in Inv :
        /\ ( /\ Extracted(i)
             /\ request_context[i] # None
             /\ request_context[i][1].cloud # None
             /\ Lower(request_context[i][1].cloud[1]) # AZURE )
           => /\ azure_ctx[i] = None /\ raised[i] = None /\ remote_calls[i] = <<>>
              /\ Dispatched(i) => Len(local_calls[i]) = 1
        /\ remote_calls[i] # <<>> =>
              /\ request_context[i][1].cloud # None
              /\ Lower(request_context[i][1].cloud[1]) = AZURE

\* a complete request for another cloud has been sent to the local executor
C10_Witness ==
    /\ request_context[1] # None
    /\ request_context[1][1].cloud = Some(<<"a", "w", "s">>)
    /\ request_context[1][1].resource_id = Some(ValidResourceId)
    /\ request_context[1][1].access_token = Some(TOKEN)
    /\ local_calls[1] # <<>>

\* C11: for a request whose cloud is azure, _get_resource_context raises a
\* ValueError that names the offending field and returns no context: a missing
\* or empty resource_id gives the message about 'resource_id', whatever
\* access_token holds; otherwise a missing or empty access_token gives the
\* message about 'access_token', whether or not resource_id can be parsed;
\* otherwise a resource_id that cannot be parsed gives the message about the
\* parse failure, with the identifier and the expected format.
C11_ValidationNamesOffendingField ==
    \A i \in Inv :
        (/\ Extracted(i)
         /\ request_context[i] # None
         /\ Lower(Get(request_context[i][1].cloud, <<>>)) = AZURE) =>
        LET rc == request_context[i][1]
            no_id == rc.resource_id = None \/ rc.resource_id[1] = <<>>
            no_token == rc.access_token = None \/ rc.access_token[1] = <<>>
            is_error(msg) == /\ pc[i] = "raised"
                             /\ raised[i] = Some(Exception("ValueError", msg))
                             /\ azure_ctx[i] = None
                             /\ ret[i] = None
        IN
        /\ no_id =>
             is_error(<<"Azure multi-tenant request missing 'resource_id' field. ">>
                      \o SchemaHint)
        /\ (~no_id /\ no_token) =>
             is_error(<<"Azure multi-tenant request missing 'access_token' field. ">>
                      \o SchemaHint)
        /\ (~no_id /\ ~no_token /\ parse_resource_id(rc.resource_id[1]) = None) =>
             is_error(<<"Failed to parse Azure resource_id: ">> \o rc.resource_id[1]
                      \o <<". Expected format: /subscriptions/{sub}/resourceGroups/{rg}/providers/{provider}/{resourceType}/{name}">>)

\* both fields are missing and the error raised is the one about resource_id;
\* an empty token next to an unparseable identifier gives the one about the token
C11_Witness ==
    \/ \E i \in Inv :
        /\ pc[i] = "raised"
        /\ request_context[i][1].cloud = Some(AZURE)
        /\ request_context[i][1].resource_id = Some(<<>>)
        /\ request_context[i][1].access_token = None
        /\ raised[i][1].msg[1] = "Azure multi-tenant request missing 'resource_id' field. "
    \/ \E i \in Inv :
        /\ pc[i] = "raised"
        /\ request_context[i][1].cloud = Some(AZURE)
        /\ request_context[i][1].resource_id = Some(<<"i", "n", "v", "a", "l", "i", "d", "-", "i", "d">>)
        /\ request_context[i][1].access_token = Some(<<>>)
        /\ raised[i][1].msg[1] = "Azure multi-tenant request missing 'access_token' field. "

\* the remote executor of invocation i has run; backend[i] is what the SDK did
RemoteRan(i) == remote_calls[i] # <<>> /\ backend[i] # None

\* the local executor of invocation i has run; backend[i] is what the child did
LocalRan(i) == local_calls[i] # <<>> /\ backend[i] # None

\* C12, as stated: whenever the remote path fails for another reason than the
\* missing client library (the client cannot be constructed, the operation
\* raises, or the 300 seconds elapse), the remote executor does not raise and
\* returns exit code -1, empty stdout and a non-empty diagnostic in stderr.
C12_Original ==
    \A i \in Inv :
        (/\ RemoteRan(i)
         /\ backend[i][1].sdk_installed
         /\ (backend[i][1].failure # "none" \/ backend[i][1].timed_out)) =>
        /\ pc[i] \in {"assemble", "done", "crashed"}
        /\ result[i] # None
        /\ result[i][1].exit_code = 0 - 1
        /\ result[i][1].stdout = <<>>
        /\ result[i][1].stderr # <<>>

\* C12, the part the except clause of the executor delivers: every exception
\* raised by the client construction or by the operation is caught, and the
\* executor returns exit code -1, empty stdout and the diagnostic
\* "Azure SDK RunCommand failed: " followed by the text of the exception.
C12_RaisedFailuresAreCaught ==
    \A i \in Inv :
        (/\ RemoteRan(i)
         /\ backend[i][1].sdk_installed
         /\ backend[i][1].failure # "none") =>
        /\ pc[i] \in {"assemble", "done", "crashed"}
        /\ result[i] = Some(CommandResult(0 - 1, <<>>,
                              <<"Azure SDK RunCommand failed: ">>
                              \o backend[i][1].error_text))

C12_Witness ==
    \E i \in Inv :
        /\ RemoteRan(i)
        /\ backend[i][1].failure = "operation"
        /\ result[i] # None
        /\ result[i][1].exit_code = 0 - 1

C14_LocalNeverRaises ==
    \A i \in Inv :
        LocalRan(i) =>
        LET env == backend[i][1]
            split == ShlexSplit(kubectl_args[i])
            res == result[i][1]
        IN
        /\ execute_kubectl_locally(kubectl_args[i], env).exc = None
        /\ pc[i] \in {"assemble", "done", "crashed"}
        /\ result[i] # None
        /\ IF split.error # <<>>
           THEN /\ res.exit_code = 0 - 1
                /\ res.stdout = <<>>
                /\ res.stderr = <<"Failed to execute kubectl command: ">> \o split.error
           ELSE IF env.kind = "completed"
           THEN /\ res.exit_code = env.returncode
                /\ res.stdout = env.stdout
                /\ res.stderr = env.stderr
           ELSE IF env.kind = "timeout"
           THEN /\ res.exit_code = 0 - 1
                /\ res.stdout = <<>>
                /\ res.stderr = <<"Command timed out after 60 seconds: kubectl ">>
                                \o kubectl_args[i]
           ELSE /\ res.exit_code = 0 - 1
                /\ res.stdout = <<>>
                /\ res.stderr = <<"Failed to execute kubectl command: ">> \o env.error_text

\* a command string with an unclosed quote has gone through the local executor
C14_Witness ==
    \E i \in Inv :
        /\ LocalRan(i)
        /\ ShlexSplit(kubectl_args[i]).error = <<"No closing quotation">>
        /\ result[i] # None
        /\ result[i][1].exit_code = 0 - 1

\* the text is empty or consists of whitespace
BlankText(s) == \A k \in DOMAIN s : IsSpace(s[k])

\* the trimmed text begins with "{" or "["
LooksLikeJson(s) ==
    \E k \in DOMAIN s :
        /\ s[k] \in {"{", "["}
        /\ \A j \in 1..(k - 1) : IsSpace(s[j])

\* C15, as stated: for every stdout text _parse_kubectl_output returns, and
\* never raises: the record {output: ""} for an empty or blank text, the
\* parsed structure for a text that begins, once trimmed, with "{" or "[" and
\* parses as JSON, and the record {output: text} with the raw text otherwise.
C15_Original ==
    output_out # None =>
        /\ output_out[1].exc = None
        /\ BlankText(stdout_in) => output_out[1].value = OutputRecord(<<>>)
        /\ (~BlankText(stdout_in) /\ LooksLikeJson(stdout_in) /\ json_loads(stdout_in).ok)
             => output_out[1].value = json_loads(stdout_in).val
        /\ (~BlankText(stdout_in) /\ ~(LooksLikeJson(stdout_in) /\ json_loads(stdout_in).ok))
             => output_out[1].value = OutputRecord(stdout_in)

\* C15, what the code delivers: the three cases hold whenever json.loads
\* returns or raises JSONDecodeError; an exception of another type raised by
\* json.loads leaves _parse_kubectl_output.
C15_ReturnsUnlessScannerOverflows ==
    output_out # None =>
        /\ output_out[1].exc # None <=>
             (~BlankText(stdout_in) /\ LooksLikeJson(stdout_in) /\ json_loads(stdout_in).raises)
        /\ output_out[1].exc = None =>
             /\ BlankText(stdout_in) => output_out[1].value = OutputRecord(<<>>)
             /\ (~BlankText(stdout_in) /\ LooksLikeJson(stdout_in) /\ json_loads(stdout_in).ok)
                  => output_out[1].value = json_loads(stdout_in).val
             /\ (~BlankText(stdout_in) /\ ~(LooksLikeJson(stdout_in) /\ json_loads(stdout_in).ok))
                  => output_out[1].value = OutputRecord(stdout_in)

\* a padded list has been parsed, and a truncated object has been wrapped
C15_Witness ==
    /\ output_out # None
    /\ \/ /\ stdout_in = <<" ", "[", "1", ",", " ", "{", "}", "]", "\n">>
          /\ output_out[1].value.type = "list"
       \/ /\ stdout_in = <<"{", "\"", "a", "\"", ":", " ">>
          /\ output_out[1].value = OutputRecord(stdout_in)

\* the token is an opaque text: it does not occur in a field that repr prints
TokenIsOpaque(ctx) ==
    /\ ~Contains(ctx.cloud, ctx.access_token)
    /\ ~Contains(ctx.subscription_id, ctx.access_token)
    /\ ~Contains(ctx.resource_group, ctx.access_token)
    /\ ~Contains(ctx.resource_name, ctx.access_token)
    /\ ~Contains(FormatOptional(ctx.tenant_id), ctx.access_token)

IsMutating(i) ==
    Lower(FirstWord(Strip(Get(params[i].args, <<>>)))) \in
        { <<"d", "e", "l", "e", "t", "e">>, <<"a", "p", "p", "l", "y">>,
          <<"c", "r", "e", "a", "t", "e">>, <<"p", "a", "t", "c", "h">>,
          <<"r", "e", "p", "l", "a", "c", "e">>, <<"e", "d", "i", "t">> }

\* the invocation has passed the policy gate
PassedGate(i) == pc[i] = "extract" \/ Extracted(i)

\* the invocation has ended
Ended(i) == pc[i] \in {"done", "raised", "crashed"}

\* the entry the policy gate logs for invocation i
GateWarning(i) ==
    LogEntry("warning",
      <<"Attempted to execute potentially dangerous kubectl command: ">>
      \o Lower(FirstWord(Strip(Get(params[i].args, <<>>)))))

\* the entry _invoke logs when it dispatches invocation i
DispatchEntries(i) ==
    { e \in { logs[k] : k \in DOMAIN logs } :
        /\ e.level = "info"
        /\ \/ StartsWith(e.msg, <<"Executing kubectl command via Azure SDK: kubectl ">> \o kubectl_args[i])
           \/ StartsWith(e.msg, <<"Executing kubectl command locally: kubectl ">> \o kubectl_args[i]) }

\* the text of the backend's answer quotes the command string
AnswerQuotesCommand(i) == LocalRan(i) /\ backend[i][1].kind = "timeout"

\* C17: the policy gate only logs.  Every invocation whose first token is a
\* mutating verb, in any letter case, logs one warning when it passes the gate,
\* before its dispatch entry, and no other invocation logs one; it then goes
\* on to context extraction and, with non-empty args, never ends without
\* having called an executor unless the extraction raised.  Of two
\* invocations with the same request context and the same backend behaviour,
\* one with a mutating verb and one without, both take the same route and end
\* with the same status, return code, data and exception, and with the same
\* error text unless that text quotes the command string.
C17_PolicyGateIsAdvisory ==
    /\ Cardinality({ k \in DOMAIN logs : logs[k].level = "warning" })
         = Cardinality({ i \in Inv : PassedGate(i) /\ IsMutating(i) })
    /\ \A i \in Inv :
        (PassedGate(i) /\ IsMutating(i)) =>
          /\ \E k \in DOMAIN logs :
                /\ logs[k] = GateWarning(i)
                /\ Dispatched(i) =>
                     \E m \in DOMAIN logs : k < m /\ logs[m] \in DispatchEntries(i)
          /\ pc[i] = "done" => remote_calls[i] \o local_calls[i] # <<>>
    /\ \A i, j \in Inv :
        (/\ IsMutating(i) /\ ~IsMutating(j)
         /\ request_context[i] = request_context[j]
         /\ Ended(i) /\ Ended(j)
         /\ backend[i] = backend[j]) =>
          /\ pc[i] = pc[j]
          /\ Len(remote_calls[i]) = Len(remote_calls[j])
          /\ Len(local_calls[i]) = Len(local_calls[j])
          /\ raised[i] = raised[j]
          /\ crash[i] = crash[j]
          /\ pc[i] = "done" =>
               /\ ret[i][1].status = ret[j][1].status
               /\ ret[i][1].return_code = ret[j][1].return_code
               /\ ret[i][1].data = ret[j][1].data
               /\ ~AnswerQuotesCommand(i) => ret[i][1].error = ret[j][1].error

\* "Delete pod p" and "get pods" have both run against the same cluster with
\* the same answer, and one warning has been logged
C17_Witness ==
    /\ IsMutating(1) /\ ~IsMutating(2)
    /\ request_context[1] = request_context[2]
    /\ request_context[1] # None
    /\ pc[1] = "done" /\ pc[2] = "done"
    /\ backend[1] = backend[2]
    /\ ret[1][1].status = "success"
    /\ \E k \in DOMAIN logs : logs[k] = GateWarning(1)

\* what _invoke returns for params p, the context ctx extracted from its
\* request and backend behaviour env when it runs with nothing else running
InvokeAlone(p, ctx, env) ==
    LET args == strip_args(p)
        r == IF use_azure_sdk(ctx)
             THEN execute_kubectl_via_azure_sdk(ctx[1], args, env)
             ELSE execute_kubectl_locally(args, env)
    IN
    IF r.exc # None THEN invoke_except(r.exc[1], args, p).value
    ELSE Some(assemble_result(r.value[1], p))

\* the token of the request of invocation i, "" when it has none
TokenOf(i) ==
    IF request_context[i] = None THEN <<>>
    ELSE Get(request_context[i][1].access_token, <<>>)

\* the text occurs in what invocation j holds or has returned
VisibleTo(j, text) ==
    \/ azure_ctx[j] # None /\ azure_ctx[j][1].access_token = text
    \/ \E k \in DOMAIN remote_calls[j] : remote_calls[j][k].azure_ctx.access_token = text
    \/ ret[j] # None /\ ret[j][1].error # None /\ Contains(ret[j][1].error[1], text)
    \/ ret[j] # None /\ ret[j][1].data # None /\ JsonContains(ret[j][1].data[1], text)
    \/ raised[j] # None /\ Contains(raised[j][1].msg, text)

\* C20: in every interleaving of two invocations on one tool instance, every
\* call of begin_run_command carries the token, subscription, resource group
\* and resource name of its own invocation's context and the command
\* "kubectl " followed by its own stripped args, that context being the one
\* extracted from its own request; the token of one invocation is never held
\* or returned by another invocation with a different token, and never
\* written to the log; and the result of an invocation is the one it would
\* have returned running alone on its own params, request context and
\* backend behaviour.
C20_InvocationsAreIsolated ==
    /\ \A k \in DOMAIN sdk_calls :
        LET c == sdk_calls[k]
            own == azure_ctx[c.inv][1]
        IN
        /\ c.token = own.access_token
        /\ c.subscription_id = own.subscription_id
        /\ c.resource_group_name = own.resource_group
        /\ c.resource_name = own.resource_name
        /\ c.command = <<"kubectl ">> \o Strip(params[c.inv].args[1])
    /\ \A i \in Inv :
        /\ Len(SelectSeq(sdk_calls, LAMBDA c : c.inv = i)) <= 1
        /\ azure_ctx[i] # None =>
             /\ azure_ctx[i][1].access_token = request_context[i][1].access_token[1]
             /\ azure_ctx[i][1].resource_id = request_context[i][1].resource_id[1]
        /\ Ended(i) =>
             azure_ctx[i] = get_resource_context(request_context[i]).value
        /\ (pc[i] = "done" /\ backend[i] # None) =>
             ret[i] = InvokeAlone(params[i], azure_ctx[i], backend[i][1])
    /\ \A i, j \in Inv :
        (i # j /\ TokenOf(i) # <<>> /\ TokenOf(i) # TokenOf(j)) =>
          /\ ~VisibleTo(j, TokenOf(i))
          /\ \A k \in DOMAIN logs : ~Contains(logs[k].msg, TokenOf(i))

\* both invocations have called the service, each for its own cluster with
\* its own token
C20_Witness ==
    /\ Len(sdk_calls) = 2
    /\ sdk_calls[1].inv # sdk_calls[2].inv
    /\ sdk_calls[1].token # sdk_calls[2].token
    /\ sdk_calls[1].resource_name # sdk_calls[2].resource_name
    /\ \A i \in Inv : pc[i] = "done"

\* the executor of invocation i ran into its bounded wait
TimedOut(i) ==
    \/ LocalRan(i) /\ ShlexSplit(kubectl_args[i]).error = <<>>
                   /\ backend[i][1].kind = "timeout"
    \/ RemoteRan(i) /\ backend[i][1].sdk_installed /\ backend[i][1].timed_out

\* C19, as stated: with the bounded waits firing, every invocation reaches a
\* terminal outcome, a StructuredToolResult or the ValueError of the context
\* extraction, and an executor that ran into its timeout has produced a
\* CommandResult with exit code -1.
C19_Original ==
    /\ \A i \in Inv : (pc[i] = "start") ~> (pc[i] \in {"done", "raised"})
    /\ [](\A i \in Inv :
            TimedOut(i) => result[i] # None /\ result[i][1].exit_code = 0 - 1)

\* C19, what the code delivers: every invocation ends, by returning a
\* StructuredToolResult or by an exception that leaves _invoke, and the local
\* executor turns its timeout into exit code -1.
C19_EveryInvocationEnds ==
    /\ \A i \in Inv : (pc[i] = "start") ~> Ended(i)
    /\ [](\A i \in Inv :
            (TimedOut(i) /\ LocalRan(i)) =>
                result[i] # None /\ result[i][1].exit_code = 0 - 1)

C19_Witness ==
    \E i \in Inv : TimedOut(i) /\ LocalRan(i) /\ pc[i] = "done"

\* the order of the first four steps of _invoke: from each, the steps that can
\* come next
StepOrder ==
    { <<"start", "done">>, <<"start", "gate">>, <<"gate", "extract">>,
      <<"extract", "raised">>, <<"extract", "dispatch">>,
      <<"dispatch", "remote">>, <<"dispatch", "local">> }

\* C21: within one invocation the steps run in the order empty-argument check,
\* policy gate, context extraction, dispatch.  For missing, empty or
\* whitespace-only args, whatever the request context (one that would fail
\* validation included), the invocation ends at the first step with the
\* missing-argument result: nothing is raised, nothing is logged, no context
\* is extracted.  For a mutating verb with a request context that fails
\* validation, the warning of the gate is in the log before the extraction
\* runs and is still the first entry when the ValueError has been raised.
C21_StepsRunInOrder ==
    /\ [][\A i \in Inv :
            (pc[i] \in {"start", "gate", "extract", "dispatch"} /\ pc'[i] # pc[i])
              => <<pc[i], pc'[i]>> \in StepOrder]_vars
    /\ [](\A i \in Inv :
            /\ pc[i] \in {"start", "gate"} => azure_ctx[i] = None /\ raised[i] = None
            /\ (ArgsBlank(params[i]) /\ pc[i] \notin {"unused", "start"}) =>
                  /\ pc[i] = "done"
                  /\ ret[i] = Some(StructuredToolResult("error", Some(MissingArgsMessage),
                                                        None, params[i], None))
                  /\ raised[i] = None
                  /\ azure_ctx[i] = None
                  /\ logs = <<>>
            /\ (/\ ~ArgsBlank(params[i])
                /\ IsMutating(i)
                /\ ValidationFails(request_context[i])
                /\ PassedGate(i)) =>
                  /\ logs # <<>>
                  /\ logs[1] = GateWarning(i)
                  /\ pc[i] = "extract" => raised[i] = None /\ logs = <<GateWarning(i)>>
                  /\ pc[i] # "extract" => pc[i] = "raised" /\ raised[i] # None)

\* "delete pod p" with an Azure request that has no access_token: the warning
\* was logged, then the ValueError was raised
C21_Witness ==
    /\ pc[1] = "raised"
    /\ params[1].args = Some(<<"d", "e", "l", "e", "t", "e", " ", "p", "o", "d", " ", "p">>)
    /\ request_context[1][1].cloud = Some(AZURE)
    /\ request_context[1][1].access_token = None
    /\ logs[1] = GateWarning(1)
    /\ raised[1][1].type = "ValueError"

\* the request context is a non-empty dict whose cloud key is absent or ""
NoCloudNamed(rc_opt) ==
    /\ rc_opt # None
    /\ rc_opt[1] # EmptyDict
    /\ rc_opt[1].cloud \in {None, Some(<<>>)}

\* the debug entry of aks_base.py 174-176 for the cloud value ""
NoCloudLog ==
    LogEntry("debug", <<"Cloud provider is '">> \o <<>>
                      \o <<"', not 'azure', using local execution">>)

\* C22: for a non-empty request context whose cloud key is absent or empty,
\* whatever its resource_id and access_token, _get_resource_context raises
\* nothing and returns None, logging that the local execution is used; the
\* command then goes to the local executor, once, with the stripped args
\* alone, the remote executor and begin_run_command are never called, and the
\* supplied token reaches no call, no log entry and no result.
C22_NoCloudMeansLocal ==
    \A i \in Inv :
        (NoCloudNamed(request_context[i]) /\ Extracted(i)) =>
            /\ get_resource_context(request_context[i]) = Returned(None, <<NoCloudLog>>)
            /\ azure_ctx[i] = None
            /\ raised[i] = None
            /\ pc[i] # "raised"
            /\ \E k \in DOMAIN logs : logs[k] = NoCloudLog
            /\ remote_calls[i] = <<>>
            /\ \A k \in DOMAIN sdk_calls : sdk_calls[k].inv # i
            /\ Dispatched(i) => local_calls[i] = <<[kubectl_args |-> kubectl_args[i]]>>
            /\ backend[i] # None => LocalRan(i) /\ backend[i][1] \in LocalEnvs
            /\ HasToken(i) =>
                  /\ ~VisibleTo(i, TokenOf(i))
                  /\ \A k \in DOMAIN logs : ~Contains(logs[k].msg, TokenOf(i))
                  /\ \A k \in DOMAIN sdk_calls : sdk_calls[k].token # TokenOf(i)

\* a request with a valid resource_id and a token but no cloud key has been
\* run by the local executor, with success
C22_Witness ==
    /\ request_context[1] # None
    /\ request_context[1][1].cloud = None
    /\ request_context[1][1].resource_id = Some(ValidResourceId)
    /\ request_context[1][1].access_token = Some(TOKEN)
    /\ LocalRan(1)
    /\ pc[1] = "done"
    /\ ret[1][1].status = "success"

====
